---- MODULE Spec2Model ----
(***************************************************************************)
(* TravelPlan itinerary manager.                                           *)
(*                                                                         *)
(* Spec          the data-access fallback layer (DatabaseService): calls   *)
(*               of getTrips / getTripEntries / getPackingItems whose      *)
(*               asynchronous executions interleave at every await.        *)
(* SpecProgress  PackingList.getPackingProgress over item lists.           *)
(* SpecStatus    Dashboard.getTripStatus over (today, start, end).         *)
(* SpecGroup     TripDetails.groupEntriesByDate and the CalendarView       *)
(*               agenda grouping over entry lists.                         *)
(* SpecDialog    the handlers of CreateTripDialog, CreateEntryDialog,      *)
(*               TextParserDialog and the AI suggestion dialog.            *)
(* SpecOnce      the data-access layer or a dialog, from their common rest *)
(*               state.                                                    *)
(* SpecPages     the loaders of Dashboard, TripDetails, PackingList,       *)
(*               CalendarView and Profile, with overlapping invocations.   *)
(***************************************************************************)
EXTENDS Integers, Sequences, FiniteSets, Bags, TLC

VARIABLES
    isDatabaseAvailable,  \* DatabaseService.isDatabaseAvailable: "null" | "true" | "false"
    calls,                \* the in-flight and finished data-access calls
    probeCount,           \* history: limit-1 probe queries issued so far
    items,                \* PackingList: items
    progress,             \* PackingList: the rendered progress (-1 before a render)
    today,                \* Dashboard: wall-clock instant of the render
    trip,                 \* Dashboard: the trip card rendered
    status,               \* Dashboard: getTripStatus of that card
    page,                 \* which page holds entries: "TripDetails" | "CalendarView"
    entries,              \* TripDetails / CalendarView: entries
    groupedEntries,       \* the groups the page rendered, as Object.entries lists them
    rendered,             \* whether the page has rendered its groups
    shown,                \* the entry lists rendered, one <<date, entries>> per date shown
    dialog,               \* which dialog is mounted
    open,                 \* the dialog's open prop (the parent's show... state)
    form,                 \* the dialog's field values
    errors,               \* formState.errors: the paths validation rejected
    dlgLoading,           \* the dialog's loading (aiLoading) state
    run,                  \* the current or last invocation of a dialog handler
    route,                \* the page shown, its route parameter, whether it is mounted
    appUser,              \* the signed-in user auth.me() resolves with
    loads,                \* the invocations of the page's loader
    pageTrip,             \* TripDetails / PackingList: trip
    pageList,             \* trips (Dashboard), entries (TripDetails, CalendarView), items (PackingList)
    pageUser,             \* Profile: user and stats
    pageLoading,          \* the page's loading state
    authThrew,            \* history: auth.me() has thrown inside the availability probe
    clock,                \* Date.now(), in milliseconds
    user,                 \* App: user
    loading,              \* App: loading
    screen,               \* App: what its last render returned
    latest                \* history: the state the last auth callback delivered

dbVars == <<isDatabaseAvailable, calls, probeCount>>
packVars == <<items, progress>>
dashVars == <<today, trip, status>>
groupVars == <<page, entries, groupedEntries, rendered, shown>>
dlgVars == <<dialog, open, form, errors, dlgLoading, run>>
loadVars == <<route, appUser, loads, pageTrip, pageList, pageUser, pageLoading>>
appVars == <<user, loading, screen, latest>>
restVars == <<authThrew, clock, appVars>>
vars == <<dbVars, packVars, dashVars, groupVars, dlgVars, loadVars, restVars>>

----------------------------------------------------------------------------
(* Bounds *)

MaxCalls == 2

Calls == 1..MaxCalls

UserIds == {"u1", "u2"}

TripIds == {"1", "2"}

Ops == {"getTrips", "getTripEntries", "getPackingItems"}

----------------------------------------------------------------------------
(* src/unnamed/part_002: the fixed fallback records *)

mockTrips ==
    << [id |-> "1", userId |-> "mock-user", title |-> "Tokyo Adventure",
        description |-> "Exploring the vibrant culture and cuisine of Japan",
        destination |-> "Tokyo, Japan",
        startDate |-> "2024-03-15", endDate |-> "2024-03-22",
        createdAt |-> "2024-01-15T10:00:00Z", updatedAt |-> "2024-01-15T10:00:00Z"],
       [id |-> "2", userId |-> "mock-user", title |-> "European Summer",
        description |-> "Multi-city tour across Europe",
        destination |-> "Paris, Rome, Barcelona",
        startDate |-> "2024-06-10", endDate |-> "2024-06-25",
        createdAt |-> "2024-01-20T14:30:00Z", updatedAt |-> "2024-01-20T14:30:00Z"],
       [id |-> "3", userId |-> "mock-user", title |-> "Bali Retreat",
        description |-> "Relaxing getaway in tropical paradise",
        destination |-> "Bali, Indonesia",
        startDate |-> "2024-08-05", endDate |-> "2024-08-12",
        createdAt |-> "2024-02-01T09:15:00Z", updatedAt |-> "2024-02-01T09:15:00Z"] >>

mockTripEntries ==
    << [id |-> "1", tripId |-> "1", userId |-> "mock-user",
        title |-> "Arrival at Narita Airport",
        description |-> "Flight arrival and transfer to hotel",
        location |-> "Narita International Airport",
        address |-> "1-1 Furugome, Narita, Chiba 282-0004, Japan",
        date |-> "2024-03-15", startTime |-> "14:30", endTime |-> "16:00",
        category |-> "transport",
        createdAt |-> "2024-01-15T10:00:00Z", updatedAt |-> "2024-01-15T10:00:00Z"],
       [id |-> "2", tripId |-> "1", userId |-> "mock-user",
        title |-> "Visit Senso-ji Temple",
        description |-> "Explore Tokyo's oldest temple in Asakusa",
        location |-> "Senso-ji Temple",
        address |-> "2-3-1 Asakusa, Taito City, Tokyo 111-0032, Japan",
        date |-> "2024-03-16", startTime |-> "10:00", endTime |-> "12:00",
        category |-> "sightseeing",
        createdAt |-> "2024-01-15T10:05:00Z", updatedAt |-> "2024-01-15T10:05:00Z"],
       [id |-> "3", tripId |-> "1", userId |-> "mock-user",
        title |-> "Sushi Dinner at Tsukiji",
        description |-> "Fresh sushi at the famous fish market",
        location |-> "Tsukiji Outer Market",
        address |-> "4 Chome Tsukiji, Chuo City, Tokyo 104-0045, Japan",
        date |-> "2024-03-16", startTime |-> "18:00", endTime |-> "20:00",
        category |-> "dining",
        createdAt |-> "2024-01-15T10:10:00Z", updatedAt |-> "2024-01-15T10:10:00Z"] >>

mockPackingItems ==
    << [id |-> "1", tripId |-> "1", userId |-> "mock-user",
        itemName |-> "Passport", category |-> "documents", isPacked |-> TRUE,
        notes |-> "Check expiration date", createdAt |-> "2024-01-15T10:00:00Z"],
       [id |-> "2", tripId |-> "1", userId |-> "mock-user",
        itemName |-> "Camera", category |-> "electronics", isPacked |-> FALSE,
        notes |-> "Don't forget extra batteries", createdAt |-> "2024-01-15T10:05:00Z"],
       [id |-> "3", tripId |-> "1", userId |-> "mock-user",
        itemName |-> "Comfortable Walking Shoes", category |-> "clothing",
        isPacked |-> FALSE, createdAt |-> "2024-01-15T10:10:00Z"] >>

----------------------------------------------------------------------------
(* The remote store (external collaborator): what a list query may return.  *)
(* The records are the store's own: their userId is whatever is stored.     *)

remoteTripA ==
    [id |-> "1", userId |-> "u1", title |-> "Lisbon", description |-> "",
     destination |-> "Lisbon, Portugal",
     startDate |-> "2024-05-01", endDate |-> "2024-05-04",
     createdAt |-> "2024-04-01T08:00:00Z", updatedAt |-> "2024-04-01T08:00:00Z"]

remoteTripB ==
    [id |-> "7", userId |-> "u1", title |-> "Oslo", description |-> "",
     destination |-> "Oslo, Norway",
     startDate |-> "2024-09-01", endDate |-> "2024-09-03",
     createdAt |-> "2024-04-02T08:00:00Z", updatedAt |-> "2024-04-02T08:00:00Z"]

remoteEntryA ==
    [id |-> "e1", tripId |-> "1", userId |-> "u1", title |-> "Tram 28",
     date |-> "2024-05-02", startTime |-> "09:00", category |-> "activity",
     createdAt |-> "2024-04-01T09:00:00Z"]

remoteItemA ==
    [id |-> "p1", tripId |-> "1", userId |-> "u1", itemName |-> "Umbrella",
     category |-> "general", isPacked |-> FALSE,
     createdAt |-> "2024-04-01T09:30:00Z"]

RemoteLists(op) ==
    CASE op = "getTrips" -> {<< >>, <<remoteTripB, remoteTripA>>}
      [] op = "getTripEntries" -> {<< >>, <<remoteEntryA>>}
      [] op = "getPackingItems" -> {<< >>, <<remoteItemA>>}

----------------------------------------------------------------------------
(* DatabaseService *)

\* mockTrips.map(trip => ({ ...trip, userId }))
MockTripsFor(userId) ==
    [i \in DOMAIN mockTrips |-> [mockTrips[i] EXCEPT !.userId = userId]]

\* mockTripEntries.filter(entry => entry.tripId === tripId)
MockEntriesFor(tripId, userId) ==
    SelectSeq(mockTripEntries, LAMBDA entry : entry.tripId = tripId)

\* mockPackingItems.filter(item => item.tripId === tripId)
MockItemsFor(tripId, userId) ==
    SelectSeq(mockPackingItems, LAMBDA item : item.tripId = tripId)

\* the statement each method reaches when it does not return a remote list
Fallback(op, tripId, userId) ==
    CASE op = "getTrips" -> MockTripsFor(userId)
      [] op = "getTripEntries" -> MockEntriesFor(tripId, userId)
      [] op = "getPackingItems" -> MockItemsFor(tripId, userId)

\* the tripId argument of a method ("-": the method takes none)
TripArgs(op) == IF op = "getTrips" THEN {"-"} ELSE TripIds

IdleCall ==
    [pc |-> "idle", op |-> "getTrips", tripId |-> "-", userId |-> "u1",
     isAvailable |-> FALSE, outcome |-> "none", remote |-> << >>,
     result |-> << >>, threw |-> FALSE]

\* const isAvailable = await this.checkDatabaseAvailability() has resolved:
\* if (isAvailable) the real list query is issued, else the mock data is returned
AfterCheck(call, isAvailable) ==
    IF isAvailable
      THEN [call EXCEPT !.pc = "query", !.isAvailable = TRUE]
      ELSE [call EXCEPT !.pc = "done", !.isAvailable = FALSE,
                        !.result = Fallback(call.op, call.tripId, call.userId)]

\* a method is called: it runs synchronously into checkDatabaseAvailability,
\* which returns the memoized flag, or starts auth.me() and suspends
StartCall(c, op, tripId, userId) ==
    /\ calls[c].pc = "idle"
    /\ LET call == [IdleCall EXCEPT !.op = op, !.tripId = tripId, !.userId = userId]
       IN  calls' = [calls EXCEPT ![c] =
               IF isDatabaseAvailable # "null"
                 THEN AfterCheck(call, isDatabaseAvailable = "true")
                 ELSE [call EXCEPT !.pc = "authMe"]]
    /\ UNCHANGED <<isDatabaseAvailable, probeCount>>

\* CheckCatch with the exception escaping to the caller of the method
CheckCatch_Rethrow(c) ==
    /\ isDatabaseAvailable' = "false"
    /\ calls' = [calls EXCEPT ![c].pc = "done", ![c].threw = TRUE]

\* the catch block of checkDatabaseAvailability
CheckCatch(c) ==
    /\ isDatabaseAvailable' = "false"
    /\ calls' = [calls EXCEPT ![c] = AfterCheck(calls[c], FALSE)]

\* this.isDatabaseAvailable = true; return true
CheckSucceeds(c) ==
    /\ isDatabaseAvailable' = "true"
    /\ calls' = [calls EXCEPT ![c] = AfterCheck(calls[c], TRUE)]

\* auth.me() of the probe settles: on success the limit-1 list query is issued
AuthMeSettles(c, ok) ==
    /\ calls[c].pc = "authMe"
    /\ IF ok
         THEN /\ calls' = [calls EXCEPT ![c].pc = "probe"]
              /\ probeCount' = probeCount + 1
              /\ UNCHANGED isDatabaseAvailable
         ELSE /\ CheckCatch(c)
              /\ UNCHANGED probeCount

\* the limit-1 list query of the probe settles
ProbeSettles(c, ok) ==
    /\ calls[c].pc = "probe"
    /\ IF ok THEN CheckSucceeds(c) ELSE CheckCatch(c)
    /\ UNCHANGED probeCount

\* QueryReturns falling through to the mock data as well
QueryReturns_Mixed(c, list) ==
    /\ calls' = [calls EXCEPT ![c].pc = "done", ![c].outcome = "ok",
                    ![c].remote = list,
                    ![c].result = list \o Fallback(calls[c].op, calls[c].tripId, calls[c].userId)]
    /\ UNCHANGED <<isDatabaseAvailable, probeCount>>

\* QueryReturns re-tagging the remote records like the mock trips
QueryReturns_Retag(c, list) ==
    /\ calls' = [calls EXCEPT ![c].pc = "done", ![c].outcome = "ok",
                    ![c].remote = list,
                    ![c].result = [i \in DOMAIN list |->
                                      [list[i] EXCEPT !.userId = calls[c].userId]]]
    /\ UNCHANGED <<isDatabaseAvailable, probeCount>>

\* return await blink.db.<collection>.list(...) resolved with list
QueryReturns(c, list) ==
    /\ calls' = [calls EXCEPT ![c].pc = "done", ![c].outcome = "ok",
                    ![c].remote = list, ![c].result = list]
    /\ UNCHANGED <<isDatabaseAvailable, probeCount>>

\* QueryCatch marking the store unavailable
QueryCatch_Reset(c) ==
    /\ calls' = [calls EXCEPT ![c].pc = "done", ![c].outcome = "threw",
                    ![c].result = Fallback(calls[c].op, calls[c].tripId, calls[c].userId)]
    /\ isDatabaseAvailable' = "false"
    /\ UNCHANGED probeCount

\* the catch block of the method: log, then fall through to the mock data
QueryCatch(c) ==
    /\ calls' = [calls EXCEPT ![c].pc = "done", ![c].outcome = "threw",
                    ![c].result = Fallback(calls[c].op, calls[c].tripId, calls[c].userId)]
    /\ UNCHANGED <<isDatabaseAvailable, probeCount>>

\* the real list query settles
QuerySettles(c, ok, list) ==
    /\ calls[c].pc = "query"
    /\ list \in RemoteLists(calls[c].op)
    /\ IF ok THEN QueryReturns(c, list) ELSE QueryCatch(c)

\* the caller has taken the result; the slot serves a later call
Return(c) ==
    /\ calls[c].pc = "done"
    /\ calls' = [calls EXCEPT ![c] = IdleCall]
    /\ UNCHANGED <<isDatabaseAvailable, probeCount>>

DbInit ==
    /\ isDatabaseAvailable = "null"
    /\ calls = [c \in Calls |-> IdleCall]
    /\ probeCount = 0

----------------------------------------------------------------------------
(* IEEE 754 binary64 arithmetic, as far as getPackingProgress needs it.     *)
(* A positive double is [hi, mid, lo, e]: its 53-bit significand is         *)
(* M = hi * 2^36 + mid * 2^18 + lo with 2^16 <= hi < 2^17 and mid, lo <     *)
(* 2^18, and its value is M * 2^e. Zero is [hi, mid, lo, e] all 0.          *)
(* Every intermediate value stays below 2^31.                               *)

RECURSIVE Pow2(_)
Pow2(n) == IF n = 0 THEN 1 ELSE 2 * Pow2(n - 1)

LimbBits == 18

LimbBase == Pow2(LimbBits)

HiBits == 17

FZero == [hi |-> 0, mid |-> 0, lo |-> 0, e |-> 0]

\* the number of bits of n > 0
BitLen(n) == CHOOSE b \in 1..31 : Pow2(b - 1) <= n /\ (b = 31 \/ n < Pow2(b))

\* the significand hi:mid:lo at exponent e, one unit in the last place added
\* when roundUp, renormalised when that carries out of the 53 bits
Rounded(hi, mid, lo, e, roundUp) ==
    LET lo1 == IF roundUp THEN lo + 1 ELSE lo
        mid1 == mid + (lo1 \div LimbBase)
        hi1 == hi + (mid1 \div LimbBase)
    IN  IF hi1 = Pow2(HiBits)
          THEN [hi |-> Pow2(HiBits - 1), mid |-> 0, lo |-> 0, e |-> e + 1]
          ELSE [hi |-> hi1, mid |-> mid1 % LimbBase, lo |-> lo1 % LimbBase, e |-> e]

\* p / t for naturals 0 <= p <= t, 0 < t < Pow2(13): the quotient by long
\* division, rounded to nearest, ties to even
FDiv(p, t) ==
    IF p = 0 THEN FZero
    ELSE LET s == CHOOSE k \in 0..13 : p * Pow2(k) >= t /\ (k = 0 \/ p * Pow2(k - 1) < t)
             r0 == p * Pow2(s) - t          \* the leading bit is 1
             x1 == r0 * Pow2(HiBits - 1)
             x2 == (x1 % t) * LimbBase
             x3 == (x2 % t) * LimbBase
             r == x3 % t
             lo == x3 \div t
             roundUp == 2 * r > t \/ (2 * r = t /\ lo % 2 = 1)
         IN  Rounded(Pow2(HiBits - 1) + (x1 \div t), x2 \div t, lo,
                     0 - s - (HiBits - 1) - 2 * LimbBits, roundUp)

\* x * k for a double x and a natural 0 < k < Pow2(7): the exact product,
\* rounded to 53 bits, to nearest, ties to even
FMul(x, k) ==
    IF x = FZero THEN FZero
    ELSE LET l == x.lo * k
             m == (x.mid * k) + (l \div LimbBase)
             p0 == l % LimbBase
             p1 == m % LimbBase
             p2 == (x.hi * k) + (m \div LimbBase)
             d == BitLen(p2) - HiBits       \* bits to drop
             D == Pow2(d)
             up == LimbBase \div D
             low == p0 % D
             lo == (p0 \div D) + ((p1 % D) * up)
             roundUp == 2 * low > D \/ (2 * low = D /\ lo % 2 = 1)
         IN  Rounded(p2 \div D, (p1 \div D) + ((p2 % D) * up), lo, x.e + d, roundUp)

\* Math.round(x) for a double 0 <= x < Pow2(16): floor(x + 0.5), exactly
MathRound(x) ==
    LET n == HiBits + 2 * LimbBits + x.e     \* bits before the binary point
    IN  IF x = FZero \/ n < 0 THEN 0
        ELSE (x.hi \div Pow2(HiBits - n)) + ((x.hi \div Pow2(HiBits - n - 1)) % 2)

----------------------------------------------------------------------------
(* PackingList: src/unnamed/part_001 *)

\* items.filter(item => item.isPacked).length
PackedCount(list) == Len(SelectSeq(list, LAMBDA item : item.isPacked))

\* getPackingProgress counting the items that are not packed
getPackingProgress_Unpacked(list) ==
    IF Len(list) = 0 THEN 0
    ELSE MathRound(FMul(FDiv(Len(list) - PackedCount(list), Len(list)), 100))

getPackingProgress(list) ==
    IF Len(list) = 0 THEN 0
    ELSE MathRound(FMul(FDiv(PackedCount(list), Len(list)), 100))

\* the item lists getPackingProgress is applied to: long enough for one item
\* to weigh less than half a percent
MaxItems == 201

SmallLen == 3

Item(i, packed) ==
    [id |-> ToString(i), itemName |-> "item", category |-> "general",
     isPacked |-> packed, quantity |-> 1]

\* every list of at most small items, and every list of at most long items
\* whose packed items come first
ItemLists(small, long) ==
    UNION {{[i \in 1..n |-> Item(i, f[i])] : f \in [1..n -> BOOLEAN]} : n \in 0..small}
    \cup {[i \in 1..n |-> Item(i, i <= k)] : <<k, n>> \in
             {kn \in (0..long) \X (0..long) : kn[1] <= kn[2]}}

\* const progress = getPackingProgress(), on a render of PackingList
RenderProgress ==
    /\ progress = -1
    /\ progress' = getPackingProgress(items)
    /\ UNCHANGED items

ProgressInit == items \in ItemLists(SmallLen, MaxItems) /\ progress = -1

----------------------------------------------------------------------------
(* Dashboard: src/unnamed/part_001 *)

\* calendar days are numbered 0..MaxDay; an instant counts ticks since
\* 00:00 UTC of day 0, TicksPerDay of them to a day
MaxDay == 3

TicksPerDay == 2

Days == 0..MaxDay

\* new Date("YYYY-MM-DD"): the instant of 00:00 UTC on that day
ParseDate(day) == day * TicksPerDay

\* getTripStatus(startDate, endDate), with now the value of new Date()
getTripStatus(now, startDate, endDate) ==
    LET start == ParseDate(startDate)
        end == ParseDate(endDate)
    IN  IF now < start THEN "upcoming"
        ELSE IF now >= start /\ now <= end THEN "active"
        ELSE "completed"

\* a render of the trip card: const status = getTripStatus(...)
RenderStatus ==
    /\ status = "none"
    /\ status' = getTripStatus(today, trip.startDate, trip.endDate)
    /\ UNCHANGED <<today, trip>>

Instants == 0..((MaxDay + 1) * TicksPerDay - 1)

StatusInit ==
    /\ today \in Instants
    /\ trip \in [startDate : Days, endDate : Days]
    /\ status = "none"

----------------------------------------------------------------------------
(* TripDetails: src/unnamed/part_000; CalendarView: src/unnamed/part_001 *)

MaxEntries == 3

\* the strings in the order localeCompare gives them
DateOrder == <<"2024-03-15", "2024-03-16">>

TimeOrder == <<"", "10:00", "18:00">>

Rank(order, str) == CHOOSE i \in DOMAIN order : order[i] = str

\* a.localeCompare(b): negative, zero or positive
LocaleCompare(order, a, b) == Rank(order, a) - Rank(order, b)

\* entries a page may hold; startTime "" stands for a missing one as well
EntryPool ==
    { [id |-> "e1", date |-> "2024-03-16", startTime |-> "18:00"],
      [id |-> "e2", date |-> "2024-03-15", startTime |-> "10:00"],
      [id |-> "e3", date |-> "2024-03-16", startTime |-> ""],
      [id |-> "e4", date |-> "2024-03-16", startTime |-> "18:00"] }

EntryLists == UNION {[1..n -> EntryPool] : n \in 0..MaxEntries}

\* the position of key date in groups (Object.entries order), 0 when absent
KeyIndex(groups, date) ==
    IF \E i \in DOMAIN groups : groups[i][1] = date
      THEN CHOOSE i \in DOMAIN groups : groups[i][1] = date
      ELSE 0

\* GroupStep dropping what the group held before
GroupStep_Overwrite(groups, entry) ==
    LET i == KeyIndex(groups, entry.date)
    IN  IF i = 0 THEN Append(groups, <<entry.date, <<entry>>>>)
        ELSE [groups EXCEPT ![i] = <<entry.date, <<entry>>>>]

\* the reducer: if (!groups[date]) groups[date] = []; groups[date].push(entry)
GroupStep(groups, entry) ==
    LET i == KeyIndex(groups, entry.date)
    IN  IF i = 0 THEN Append(groups, <<entry.date, <<entry>>>>)
        ELSE [groups EXCEPT ![i] = <<entry.date, Append(groups[i][2], entry)>>]

\* list.reduce(GroupStep, acc)
RECURSIVE Reduce(_, _)
Reduce(list, acc) ==
    IF list = << >> THEN acc ELSE Reduce(Tail(list), GroupStep(acc, Head(list)))

groupEntriesByDate(list) == Reduce(list, << >>)

\* the comparator of the agenda sort:
\* a.date.localeCompare(b.date) || (a.startTime || '').localeCompare(b.startTime || '')
AgendaCompare(a, b) ==
    IF LocaleCompare(DateOrder, a.date, b.date) # 0
      THEN LocaleCompare(DateOrder, a.date, b.date)
      ELSE LocaleCompare(TimeOrder, a.startTime, b.startTime)

\* x inserted into sorted after everything that does not compare greater
Insert(sorted, x) ==
    LET n == Cardinality({i \in DOMAIN sorted : AgendaCompare(sorted[i], x) <= 0})
    IN  SubSeq(sorted, 1, n) \o <<x>> \o SubSeq(sorted, n + 1, Len(sorted))

\* Array.prototype.sort with AgendaCompare: a stable sort
RECURSIVE SortAgenda(_)
SortAgenda(list) ==
    IF list = << >> THEN << >>
    ELSE Insert(SortAgenda(SubSeq(list, 1, Len(list) - 1)), list[Len(list)])

\* the comparator of the sort within a date:
\* (a.startTime || '').localeCompare(b.startTime || '')
TimeCompare(a, b) == LocaleCompare(TimeOrder, a.startTime, b.startTime)

\* x inserted into sorted after everything that does not compare greater
InsertByTime(sorted, x) ==
    LET n == Cardinality({i \in DOMAIN sorted : TimeCompare(sorted[i], x) <= 0})
    IN  SubSeq(sorted, 1, n) \o <<x>> \o SubSeq(sorted, n + 1, Len(sorted))

\* SortByTime leaving the list as it is
SortByTime_None(list) == list

\* Array.prototype.sort with TimeCompare: a stable sort
RECURSIVE SortByTime(_)
SortByTime(list) ==
    IF list = << >> THEN << >>
    ELSE InsertByTime(SortByTime(SubSeq(list, 1, Len(list) - 1)), list[Len(list)])

\* Object.keys(groupedEntries).sort()
SortedDates(groups) ==
    LET keys == {groups[i][1] : i \in DOMAIN groups}
    IN  [k \in 1..Cardinality(keys) |->
            CHOOSE d \in keys :
                Cardinality({e \in keys : Rank(DateOrder, e) < Rank(DateOrder, d)}) = k - 1]

\* TripDetails renders: const groupedEntries = groupEntriesByDate(entries),
\* and the timeline lists, per sorted date, groupedEntries[date].sort(...)
RenderTimeline ==
    /\ page = "TripDetails"
    /\ groupedEntries' = groupEntriesByDate(entries)
    /\ shown' = LET sortedDates == SortedDates(groupedEntries')
                IN  [k \in DOMAIN sortedDates |->
                        <<sortedDates[k],
                          SortByTime(groupedEntries'[KeyIndex(groupedEntries', sortedDates[k])][2])>>]
    /\ rendered' = TRUE
    /\ UNCHANGED <<page, entries>>

\* CalendarView renders the agenda tab: entries.sort(...) sorts the state
\* array in place, and the sorted array is reduced into the groups
RenderAgenda ==
    /\ page = "CalendarView"
    /\ entries' = SortAgenda(entries)
    /\ groupedEntries' = groupEntriesByDate(entries')
    /\ rendered' = TRUE
    /\ UNCHANGED <<page, shown>>

\* CalendarView renders the list of the selected date:
\* entries.filter(entry => entry.date === dateString).sort(...), shown when
\* it is not empty
RenderSelectedDate(date) ==
    /\ page = "CalendarView"
    /\ LET selectedDateEntries == SelectSeq(entries, LAMBDA entry : entry.date = date)
       IN  shown' = IF Len(selectedDateEntries) > 0
                      THEN << <<date, SortByTime(selectedDateEntries)>> >>
                      ELSE << >>
    /\ UNCHANGED <<page, entries, groupedEntries, rendered>>

GroupInit ==
    /\ page \in {"TripDetails", "CalendarView"}
    /\ entries \in EntryLists
    /\ groupedEntries = << >>
    /\ rendered = FALSE
    /\ shown = << >>

----------------------------------------------------------------------------
(* The dialogs and their handlers.                                          *)
(* CreateTripDialog, TextParserDialog: src/unnamed/part_003;                *)
(* CreateEntryDialog: src/src/components/trips/CreateEntryDialog.tsx;       *)
(* the AI suggestion dialog of PackingList: src/unnamed/part_001            *)

Dialogs == {"CreateTrip", "CreateEntry", "TextParser", "AISuggestions"}

\* a date field nothing was picked for (undefined)
NoDate == -1

Titles == {"", "Kyoto"}

Destinations == {"", "Japan"}

Categories == {"", "activity"}

Texts == {"", " ", "Flight to Rome"}

\* what generateObject may resolve with for handleParse
ParsedTrips == {"Rome, 2 entries"}

\* useForm defaultValues / the useState initial values of the dialog; the
\* AI suggestion dialog has no fields, it reads the trip of PackingList
DefaultValues(d) ==
    CASE d = "CreateTrip" ->
           [title |-> "", destination |-> "", startDate |-> NoDate, endDate |-> NoDate]
      [] d = "CreateEntry" -> [title |-> "", date |-> NoDate, category |-> ""]
      [] d = "TextParser" -> [text |-> "", parsedTrip |-> "null"]
      [] d = "AISuggestions" -> [trip |-> "null"]

\* the fields the user edits, and the values typed or picked
Editable(d) ==
    CASE d = "CreateTrip" -> {"title", "destination", "startDate", "endDate"}
      [] d = "CreateEntry" -> {"title", "date", "category"}
      [] d = "TextParser" -> {"text"}
      [] d = "AISuggestions" -> {}

FieldValues(field) ==
    CASE field = "title" -> Titles
      [] field = "destination" -> Destinations
      [] field = "category" -> Categories
      [] field = "text" -> Texts
      [] field \in {"startDate", "endDate", "date"} -> Days

\* tripSchema without its refinement
tripSchema_NoRefine(data) ==
    {f \in {"title", "destination"} : data[f] = ""}
    \cup {f \in {"startDate", "endDate"} : data[f] = NoDate}

\* tripSchema: the paths of the issues it reports (none: the data is valid).
\* The refinement runs once both dates are dates.
tripSchema(data) ==
    {f \in {"title", "destination"} : data[f] = ""}
    \cup {f \in {"startDate", "endDate"} : data[f] = NoDate}
    \cup (IF /\ data.startDate # NoDate
             /\ data.endDate # NoDate
             /\ ~(data.endDate >= data.startDate)
            THEN {"endDate"} ELSE {})

\* entrySchema
entrySchema(data) ==
    {f \in {"title", "category"} : data[f] = ""}
    \cup {f \in {"date"} : data[f] = NoDate}

Schema(d, data) == IF d = "CreateTrip" THEN tripSchema(data) ELSE entrySchema(data)

CreateOp(d) == IF d = "CreateTrip" THEN "trips.create" ELSE "tripEntries.create"

SuccessTitle(d) ==
    IF d = "CreateTrip" THEN "Trip created successfully!" ELSE "Entry added successfully!"

LocalTitle(d) == IF d = "CreateTrip" THEN "Trip created!" ELSE "Entry added!"

Toast(title, variant) == [title |-> title, variant |-> variant]

ErrorToast == Toast("Error", "destructive")

\* one invocation of a handler: where it is suspended, and what it has done
\* so far (remote operations attempted, notifications shown, created-callback
\* invocations, whether an exception left it); items is the list its closure holds
NoRun ==
    [handler |-> "none", pc |-> "idle", ops |-> << >>, toasts |-> << >>,
     callbacks |-> 0, threw |-> FALSE, items |-> << >>]

Begin(handler, pc, op) == [NoRun EXCEPT !.handler = handler, !.pc = pc, !.ops = <<op>>]

\* the parent opens the dialog: setShowCreateTrip(true) and its like
OpenDialog ==
    /\ ~open
    /\ open' = TRUE
    /\ UNCHANGED <<dialog, form, errors, dlgLoading, run, items>>

\* the Cancel button: onOpenChange(false)
CancelDialog ==
    /\ open
    /\ open' = FALSE
    /\ UNCHANGED <<dialog, form, errors, dlgLoading, run, items>>

\* the user types into a field or picks a date; the end date calendar
\* disables the dates before the start date picked so far
EditForm(field, value) ==
    /\ open
    /\ field \in Editable(dialog)
    /\ value \in FieldValues(field)
    /\ field = "endDate" /\ form.startDate # NoDate => value >= form.startDate
    /\ form' = [form EXCEPT ![field] = value]
    /\ UNCHANGED <<dialog, open, errors, dlgLoading, run, items>>

\* form.handleSubmit(onSubmit): the resolver validates the values; onSubmit
\* runs for valid data only, up to its first await:
\* setLoading(true); const user = await blink.auth.me()
SubmitForm ==
    /\ dialog \in {"CreateTrip", "CreateEntry"}
    /\ open /\ ~dlgLoading
    /\ errors' = Schema(dialog, form)
    /\ IF errors' = {}
         THEN /\ dlgLoading' = TRUE
              /\ run' = Begin("onSubmit", "authMe", "auth.me")
         ELSE UNCHANGED <<dlgLoading, run>>
    /\ UNCHANGED <<dialog, open, form, items>>

\* SubmitCatch going on as if the user had been fetched
SubmitCatch_Create ==
    /\ run' = [run EXCEPT !.pc = "create", !.ops = Append(@, CreateOp(dialog))]
    /\ UNCHANGED <<open, form, errors, dlgLoading>>

\* the outer catch of onSubmit and handleCreateTrip, then finally
SubmitCatch ==
    /\ run' = [run EXCEPT !.pc = "idle", !.toasts = Append(@, ErrorToast)]
    /\ dlgLoading' = FALSE
    /\ UNCHANGED <<open, form, errors>>

\* auth.me() of onSubmit settles: on success tripData / entryData is built
\* and await blink.db.<collection>.create(...) is issued
SubmitAuthSettles(ok) ==
    /\ run.handler = "onSubmit" /\ run.pc = "authMe"
    /\ IF ok
         THEN /\ run' = [run EXCEPT !.pc = "create", !.ops = Append(@, CreateOp(dialog))]
              /\ UNCHANGED <<open, form, errors, dlgLoading>>
         ELSE SubmitCatch
    /\ UNCHANGED <<dialog, items>>

\* what follows the inner try/catch: form.reset(); onOpenChange(false);
\* onTripCreated?.() / onEntryCreated?.(); finally setLoading(false)
AfterCreate(title) ==
    /\ run' = [run EXCEPT !.pc = "idle",
                          !.toasts = Append(@, Toast(title, "default")),
                          !.callbacks = @ + 1]
    /\ form' = DefaultValues(dialog)
    /\ errors' = {}
    /\ open' = FALSE
    /\ dlgLoading' = FALSE

\* CreateCatch leaving the failure to the outer catch
CreateCatch_Error == SubmitCatch

\* CreateCatch issuing the create once more
CreateCatch_Retry ==
    /\ run' = [run EXCEPT !.ops = Append(@, CreateOp(dialog))]
    /\ UNCHANGED <<open, form, errors, dlgLoading>>

\* catch (dbError): the notification without "successfully"
CreateCatch == AfterCreate(LocalTitle(dialog))

\* the create call settles
CreateSettles(ok) ==
    /\ run.handler = "onSubmit" /\ run.pc = "create"
    /\ IF ok THEN AfterCreate(SuccessTitle(dialog)) ELSE CreateCatch
    /\ UNCHANGED <<dialog, items>>

\* text.trim()
Trim(text) == IF text = " " THEN "" ELSE text

\* handleParse: a blank text is refused with a notification (the Parse
\* button is disabled for it); else setLoading(true) and
\* await blink.ai.generateObject(...). The text area and the Parse button
\* are rendered while parsedTrip is null
HandleParse ==
    /\ dialog = "TextParser"
    /\ open /\ ~dlgLoading
    /\ form.parsedTrip = "null"
    /\ IF Trim(form.text) = ""
         THEN /\ run' = [NoRun EXCEPT !.handler = "handleParse",
                                      !.toasts = <<ErrorToast>>]
              /\ UNCHANGED dlgLoading
         ELSE /\ run' = Begin("handleParse", "generate", "ai.generateObject")
              /\ dlgLoading' = TRUE
    /\ UNCHANGED <<dialog, open, form, errors, items>>

\* generateObject of handleParse settles: setParsedTrip(object), or the
\* catch block's notification; finally setLoading(false)
ParseSettles(ok, object) ==
    /\ run.handler = "handleParse" /\ run.pc = "generate"
    /\ object \in ParsedTrips
    /\ IF ok
         THEN /\ form' = [form EXCEPT !.parsedTrip = object]
              /\ run' = [run EXCEPT !.pc = "idle"]
         ELSE /\ run' = [run EXCEPT !.pc = "idle", !.toasts = Append(@, ErrorToast)]
              /\ UNCHANGED form
    /\ dlgLoading' = FALSE
    /\ UNCHANGED <<dialog, open, errors, items>>

\* handleCreateTrip: if (!parsedTrip) return; else setLoading(true) and
\* await blink.auth.me()
HandleCreateTrip ==
    /\ dialog = "TextParser"
    /\ open /\ ~dlgLoading
    /\ IF form.parsedTrip = "null"
         THEN UNCHANGED <<run, dlgLoading>>
         ELSE /\ run' = Begin("handleCreateTrip", "authMe", "auth.me")
              /\ dlgLoading' = TRUE
    /\ UNCHANGED <<dialog, open, form, errors, items>>

\* ParsedTripCreated saving the trip like CreateTripDialog does
ParsedTripCreated_Persist ==
    /\ run' = [run EXCEPT !.pc = "idle", !.ops = Append(@, "trips.create"),
                          !.toasts = Append(@, Toast("Trip created successfully!", "default")),
                          !.callbacks = @ + 1]
    /\ form' = [text |-> "", parsedTrip |-> "null"]
    /\ open' = FALSE
    /\ dlgLoading' = FALSE

\* after auth.me() of handleCreateTrip: console.log, the notification,
\* setText(''); setParsedTrip(null); onOpenChange(false); onTripCreated?.();
\* finally setLoading(false)
ParsedTripCreated ==
    /\ run' = [run EXCEPT !.pc = "idle",
                          !.toasts = Append(@, Toast("Trip created successfully!", "default")),
                          !.callbacks = @ + 1]
    /\ form' = [text |-> "", parsedTrip |-> "null"]
    /\ open' = FALSE
    /\ dlgLoading' = FALSE

\* auth.me() of handleCreateTrip settles
ParsedAuthSettles(ok) ==
    /\ run.handler = "handleCreateTrip" /\ run.pc = "authMe"
    /\ IF ok THEN ParsedTripCreated ELSE SubmitCatch
    /\ UNCHANGED <<dialog, errors, items>>

\* the names the lists and the suggestion batches are made of
ItemNames == {"Socks", "socks", "Hat"}

\* itemName.toLowerCase()
ToLowerCase(name) == IF name = "Socks" THEN "socks" ELSE name

MaxBatch == 2

\* the suggestions arrays generateObject may resolve with
Batches == UNION {[1..n -> ItemNames] : n \in 0..MaxBatch}

\* the ids `ai-${Date.now()}-${Math.random()}` may come out as
AiIds == {"ai-1", "ai-2"}

\* the items the packing list holds when the suggestion dialog is used
NamedLists ==
    { << >>,
      <<[Item(1, FALSE) EXCEPT !.itemName = "Socks"]>>,
      <<[Item(1, TRUE) EXCEPT !.itemName = "Hat"],
        [Item(2, FALSE) EXCEPT !.itemName = "socks"]>> }

\* suggestions.filter(s => !existingItemNames.has(s.itemName.toLowerCase()))
\*            .map(s => ({ id, itemName, category, isPacked: false, ... }))
NewSuggestions(existing, batch, ids) ==
    LET existingItemNames == {ToLowerCase(existing[i].itemName) : i \in DOMAIN existing}
        kept == SelectSeq(batch, LAMBDA name : ToLowerCase(name) \notin existingItemNames)
    IN  [i \in DOMAIN kept |->
            [id |-> ids[i], itemName |-> kept[i], category |-> "clothing",
             isPacked |-> FALSE, quantity |-> 1]]

\* generateAISuggestions: if (!trip) return; else setAiLoading(true) and
\* await blink.ai.generateObject(...); the closure holds the items rendered
GenerateAISuggestions ==
    /\ dialog = "AISuggestions"
    /\ open /\ ~dlgLoading
    /\ IF form.trip = "null"
         THEN UNCHANGED <<run, dlgLoading>>
         ELSE /\ run' = [Begin("generateAISuggestions", "generate", "ai.generateObject")
                            EXCEPT !.items = items]
              /\ dlgLoading' = TRUE
    /\ UNCHANGED <<dialog, open, form, errors, items>>

\* SuggestionsSettle emptying the list in its catch block, as the loaders do
SuggestionsSettle_Clear(ok, batch, ids) ==
    /\ run.handler = "generateAISuggestions" /\ run.pc = "generate"
    /\ batch \in Batches
    /\ ids \in [1..Len(batch) -> AiIds]
    /\ IF ok
         THEN /\ items' = items \o NewSuggestions(run.items, batch, ids)
              /\ run' = [run EXCEPT !.pc = "idle",
                            !.toasts = Append(@, Toast("AI suggestions added!", "default"))]
         ELSE /\ run' = [run EXCEPT !.pc = "idle", !.toasts = Append(@, ErrorToast)]
              /\ items' = << >>
    /\ dlgLoading' = FALSE
    /\ open' = FALSE
    /\ UNCHANGED <<dialog, form, errors>>

\* SuggestionsSettle appending to the list its closure holds:
\* setItems([...items, ...newSuggestions])
SuggestionsSettle_Stale(ok, batch, ids) ==
    /\ run.handler = "generateAISuggestions" /\ run.pc = "generate"
    /\ batch \in Batches
    /\ ids \in [1..Len(batch) -> AiIds]
    /\ IF ok
         THEN /\ items' = run.items \o NewSuggestions(run.items, batch, ids)
              /\ run' = [run EXCEPT !.pc = "idle",
                            !.toasts = Append(@, Toast("AI suggestions added!", "default"))]
         ELSE /\ run' = [run EXCEPT !.pc = "idle", !.toasts = Append(@, ErrorToast)]
              /\ UNCHANGED items
    /\ dlgLoading' = FALSE
    /\ open' = FALSE
    /\ UNCHANGED <<dialog, form, errors>>

\* generateObject of generateAISuggestions settles:
\* setItems(prev => [...prev, ...newSuggestions]) and a notification, or the
\* catch block's notification; finally setAiLoading(false);
\* setShowAISuggestions(false)
SuggestionsSettle(ok, batch, ids) ==
    /\ run.handler = "generateAISuggestions" /\ run.pc = "generate"
    /\ batch \in Batches
    /\ ids \in [1..Len(batch) -> AiIds]
    /\ IF ok
         THEN /\ items' = items \o NewSuggestions(run.items, batch, ids)
              /\ run' = [run EXCEPT !.pc = "idle",
                            !.toasts = Append(@, Toast("AI suggestions added!", "default"))]
         ELSE /\ run' = [run EXCEPT !.pc = "idle", !.toasts = Append(@, ErrorToast)]
              /\ UNCHANGED items
    /\ dlgLoading' = FALSE
    /\ open' = FALSE
    /\ UNCHANGED <<dialog, form, errors>>

\* a dialog as it is mounted; the suggestion dialog belongs to a PackingList
\* that has loaded its trip (or found none) and its items
DialogInit ==
    /\ dialog \in Dialogs
    /\ open = FALSE
    /\ form \in IF dialog = "AISuggestions"
                  THEN {[trip |-> "null"], [trip |-> "Tokyo, Japan"]}
                  ELSE {DefaultValues(dialog)}
    /\ errors = {}
    /\ dlgLoading = FALSE
    /\ run = NoRun
    /\ items \in IF dialog = "AISuggestions" THEN NamedLists ELSE {<< >>}

----------------------------------------------------------------------------
(* The pages and their loaders.                                             *)
(* TripDetails: src/unnamed/part_000; Dashboard, PackingList, CalendarView, *)
(* Profile: src/unnamed/part_001.                                           *)
(* A loader awaits DatabaseService methods; here such a call is one await   *)
(* that resolves with a list the method can return (its steps are those of  *)
(* Spec): the list of a remote query, or the fallback.                      *)

Pages == {"Dashboard", "TripDetails", "PackingList", "CalendarView", "Profile"}

DetailPages == {"TripDetails", "PackingList"}

MaxLoads == 2

Loads == 1..MaxLoads

\* trip === null
NullTrip == [id |-> "null"]

\* the useState initial values of Profile: user, stats
NoProfile == [user |-> "null", stats |-> "null"]

\* the inline mockEntries of CalendarView.loadCalendarEntries
calendarMockEntries ==
    << [id |-> "1", tripId |-> "1", tripTitle |-> "Tokyo Adventure",
        title |-> "Arrival at Narita Airport",
        date |-> "2024-03-15", startTime |-> "14:30", category |-> "transportation"],
       [id |-> "2", tripId |-> "1", tripTitle |-> "Tokyo Adventure",
        title |-> "Check-in at Park Hyatt Tokyo",
        date |-> "2024-03-15", startTime |-> "16:00", category |-> "accommodation"],
       [id |-> "3", tripId |-> "1", tripTitle |-> "Tokyo Adventure",
        title |-> "Visit Senso-ji Temple",
        date |-> "2024-03-16", startTime |-> "10:00", category |-> "activity"],
       [id |-> "4", tripId |-> "2", tripTitle |-> "European Summer",
        title |-> "Flight to Paris",
        date |-> "2024-06-10", startTime |-> "20:00", category |-> "transportation"],
       [id |-> "5", tripId |-> "2", tripTitle |-> "European Summer",
        title |-> "Louvre Museum",
        date |-> "2024-06-11", startTime |-> "10:00", category |-> "activity"] >>

\* a second stored trip with the id of remoteTripA
remoteTripA2 == [remoteTripA EXCEPT !.title = "Lisbon again"]

\* what an awaited DatabaseService method may resolve with
DbResults(op, tripId, userId) ==
    RemoteLists(op) \cup {Fallback(op, tripId, userId)}
    \cup (IF op = "getTrips" THEN {<<remoteTripA, remoteTripA2>>} ELSE {})

\* allTrips.find(t => t.id === id): the first match, or undefined
Matches(allTrips, id) == {i \in DOMAIN allTrips : allTrips[i].id = id}

Found(allTrips, id) == Matches(allTrips, id) # {}

Find(allTrips, id) ==
    allTrips[CHOOSE i \in Matches(allTrips, id) : \A j \in Matches(allTrips, id) : i <= j]

\* PackingList: packingItems.map(item => ({ id, itemName, category:
\* item.category || 'general', isPacked: Number(item.isPacked) > 0,
\* quantity: 1, notes: item.notes }))
FormatItems(packingItems) ==
    [i \in DOMAIN packingItems |->
        [id |-> packingItems[i].id,
         itemName |-> packingItems[i].itemName,
         category |-> IF "category" \notin DOMAIN packingItems[i]
                            \/ packingItems[i].category = ""
                        THEN "general" ELSE packingItems[i].category,
         isPacked |-> (packingItems[i].isPacked = TRUE),
         quantity |-> 1,
         notes |-> IF "notes" \in DOMAIN packingItems[i] THEN packingItems[i].notes
                   ELSE "undefined"]]

\* the method a detail page fetches its list with
ListOp(p) == IF p = "TripDetails" THEN "getTripEntries" ELSE "getPackingItems"

\* one invocation of a loader: where it is suspended, the route parameter
\* its closure holds, and the remote operations it has issued
IdleLoad == [pc |-> "idle", id |-> "-", ops |-> << >>]

InFlight(l) == loads[l].pc # "idle"

\* the least slot no invocation occupies
FreeLoad == CHOOSE l \in Loads : ~InFlight(l) /\ \A m \in Loads : m < l => InFlight(m)

\* Invoke going to DatabaseService.getTrips without fetching the user
Invoke_SkipAuth(id) ==
    /\ \E l \in Loads : ~InFlight(l)
    /\ loads' = [loads EXCEPT ![FreeLoad] =
                    [pc |-> "getTrips", id |-> id, ops |-> <<"getTrips">>]]
    /\ pageLoading' = TRUE
    /\ UNCHANGED <<pageTrip, pageList, pageUser>>

\* the loader is invoked and runs up to its first await. loadCalendarEntries
\* has none: it sets its inline entries and ends.
Invoke(id) ==
    IF route.page = "CalendarView"
      THEN /\ pageList' = calendarMockEntries
           /\ pageLoading' = FALSE
           /\ UNCHANGED <<loads, pageTrip, pageUser>>
      ELSE /\ \E l \in Loads : ~InFlight(l)
           /\ loads' = [loads EXCEPT ![FreeLoad] =
                           [pc |-> "authMe", id |-> id, ops |-> <<"auth.me">>]]
           /\ pageLoading' = TRUE
           /\ UNCHANGED <<pageTrip, pageList, pageUser>>

\* the page renders for the first time and its effect invokes the loader.
\* TripDetails and PackingList name their loader in the dependency list of
\* the effect above the const that declares it: the render throws a
\* ReferenceError unless the build lowers const to var.
Mount(lowered) ==
    /\ route.mounted = "no"
    /\ IF route.page \in DetailPages /\ ~lowered
         THEN /\ route' = [route EXCEPT !.mounted = "crashed"]
              /\ UNCHANGED <<loads, pageTrip, pageList, pageUser, pageLoading>>
         ELSE /\ route' = [route EXCEPT !.mounted = "yes"]
              /\ Invoke(route.id)
    /\ UNCHANGED appUser

\* the route parameter changes under a mounted detail page: the effect
\* runs again, [id, loadTripDetails] / [tripId, loadPackingList]
Navigate(id) ==
    /\ route.mounted = "yes"
    /\ route.page \in DetailPages
    /\ id \in TripIds \ {route.id}
    /\ route' = [route EXCEPT !.id = id]
    /\ Invoke(id)
    /\ UNCHANGED appUser

\* a created callback invokes the loader again:
\* onTripCreated={loadTrips}, onEntryCreated={loadTripDetails}
Reload ==
    /\ route.mounted = "yes"
    /\ route.page \in {"Dashboard", "TripDetails"}
    /\ Invoke(route.id)
    /\ UNCHANGED <<route, appUser>>

\* LoadCatch leaving the state as it is
LoadCatch_Keep(l) ==
    /\ loads' = [loads EXCEPT ![l] = IdleLoad]
    /\ pageLoading' = FALSE
    /\ UNCHANGED <<pageTrip, pageList, pageUser>>

\* the catch block of the loader, then finally setLoading(false)
LoadCatch(l) ==
    /\ loads' = [loads EXCEPT ![l] = IdleLoad]
    /\ pageLoading' = FALSE
    /\ CASE route.page = "Dashboard" ->
              pageList' = << >> /\ UNCHANGED <<pageTrip, pageUser>>
         [] route.page \in DetailPages ->
              pageTrip' = NullTrip /\ pageList' = << >> /\ UNCHANGED pageUser
         [] route.page = "Profile" ->
              UNCHANGED <<pageTrip, pageList, pageUser>>

\* auth.me() of a loader settles. Profile goes on with its fixed profile
\* and stats; the others await DatabaseService.getTrips(user.id)
LoadAuthSettles(l, ok) ==
    /\ loads[l].pc = "authMe"
    /\ IF ~ok THEN LoadCatch(l)
       ELSE IF route.page = "Profile"
         THEN /\ pageUser' = [user |-> appUser, stats |-> "mockStats"]
              /\ pageLoading' = FALSE
              /\ loads' = [loads EXCEPT ![l] = IdleLoad]
              /\ UNCHANGED <<pageTrip, pageList>>
         ELSE /\ loads' = [loads EXCEPT ![l].pc = "getTrips",
                              ![l].ops = Append(@, "getTrips")]
              /\ UNCHANGED <<pageTrip, pageList, pageUser, pageLoading>>
    /\ UNCHANGED <<route, appUser>>

\* Resolve writing only for the route parameter the page has now
Resolve_Guarded(l, allTrips) ==
    IF loads[l].id = route.id /\ Found(allTrips, loads[l].id)
      THEN /\ pageTrip' = Find(allTrips, loads[l].id)
           /\ loads' = [loads EXCEPT ![l].pc = "getList",
                           ![l].ops = Append(@, ListOp(route.page))]
           /\ UNCHANGED <<pageList, pageLoading>>
      ELSE /\ loads' = [loads EXCEPT ![l] = IdleLoad]
           /\ pageLoading' = FALSE
           /\ UNCHANGED <<pageTrip, pageList>>

\* Resolve fetching the list of the route parameter whether the trip is
\* found or not
Resolve_Always(l, allTrips) ==
    /\ pageTrip' = IF Found(allTrips, loads[l].id) THEN Find(allTrips, loads[l].id)
                   ELSE NullTrip
    /\ loads' = [loads EXCEPT ![l].pc = "getList",
                    ![l].ops = Append(@, ListOp(route.page))]
    /\ UNCHANGED <<pageList, pageLoading>>

\* a detail page resolves its trip: const foundTrip = allTrips.find(...);
\* if (foundTrip) { setTrip(foundTrip); await getTripEntries / getPackingItems }
\* else { setTrip(null); setEntries([]) / setItems([]) } finally setLoading(false)
Resolve(l, allTrips) ==
    IF Found(allTrips, loads[l].id)
      THEN /\ pageTrip' = Find(allTrips, loads[l].id)
           /\ loads' = [loads EXCEPT ![l].pc = "getList",
                           ![l].ops = Append(@, ListOp(route.page))]
           /\ UNCHANGED <<pageList, pageLoading>>
      ELSE /\ pageTrip' = NullTrip
           /\ pageList' = << >>
           /\ loads' = [loads EXCEPT ![l] = IdleLoad]
           /\ pageLoading' = FALSE

\* DatabaseService.getTrips of a loader resolves: Dashboard sets its trips,
\* a detail page resolves its trip
TripsSettle(l, allTrips) ==
    /\ loads[l].pc = "getTrips"
    /\ allTrips \in DbResults("getTrips", "-", appUser)
    /\ IF route.page = "Dashboard"
         THEN /\ pageList' = allTrips
              /\ pageLoading' = FALSE
              /\ loads' = [loads EXCEPT ![l] = IdleLoad]
              /\ UNCHANGED pageTrip
         ELSE Resolve(l, allTrips)
    /\ UNCHANGED <<route, appUser, pageUser>>

\* getTripEntries / getPackingItems of a detail page resolves:
\* setEntries(tripEntries) / setItems(formattedItems); finally setLoading(false)
ListSettles(l, list) ==
    /\ loads[l].pc = "getList"
    /\ list \in DbResults(ListOp(route.page), loads[l].id, appUser)
    /\ pageList' = IF route.page = "TripDetails" THEN list ELSE FormatItems(list)
    /\ pageLoading' = FALSE
    /\ loads' = [loads EXCEPT ![l] = IdleLoad]
    /\ UNCHANGED <<route, appUser, pageTrip, pageUser>>

\* a page as it is constructed, before its first render
PageInit ==
    /\ route \in {[page |-> p, id |-> i, mounted |-> "no"] :
                    <<p, i>> \in (DetailPages \X TripIds)
                                 \cup ((Pages \ DetailPages) \X {"-"})}
    /\ appUser \in UserIds
    /\ loads = [l \in Loads |-> IdleLoad]
    /\ pageTrip = NullTrip
    /\ pageList = << >>
    /\ pageUser = NoProfile
    /\ pageLoading = TRUE

----------------------------------------------------------------------------
(* PackingList: the handlers that edit its items. src/unnamed/part_001      *)

\* what the new-item field holds when Add is pressed
NewItemNames == {"Socks", " "}

\* Date.now() when the page is constructed
Epoch == 1000

MaxTicks == 2

\* the lists the handlers are followed on
MaxList == 2

\* a millisecond passes
Tick ==
    /\ clock < Epoch + MaxTicks
    /\ clock' = clock + 1
    /\ UNCHANGED <<items, dlgVars>>

\* addItem. The buttons of the page are out of reach while the (modal)
\* suggestion dialog is open
AddItem(newItemName) ==
    /\ ~open
    /\ IF Trim(newItemName) = ""
         THEN UNCHANGED items
         ELSE items' = Append(items,
                  [id |-> ToString(clock), itemName |-> Trim(newItemName),
                   category |-> "general", isPacked |-> FALSE, quantity |-> 1])
    /\ UNCHANGED <<clock, dlgVars>>

\* Toggled marking the items packed
Toggled_Set(list, itemId) ==
    [i \in DOMAIN list |->
        IF list[i].id = itemId THEN [list[i] EXCEPT !.isPacked = TRUE] ELSE list[i]]

\* prev.map(item => item.id === itemId ? { ...item, isPacked: !item.isPacked } : item)
Toggled(list, itemId) ==
    [i \in DOMAIN list |->
        IF list[i].id = itemId THEN [list[i] EXCEPT !.isPacked = ~@] ELSE list[i]]

\* togglePacked
TogglePacked(itemId) ==
    /\ ~open
    /\ items' = Toggled(items, itemId)
    /\ UNCHANGED <<clock, dlgVars>>

\* removeItem: prev.filter(item => item.id !== itemId)
RemoveItem(itemId) ==
    /\ ~open
    /\ items' = SelectSeq(items, LAMBDA item : item.id # itemId)
    /\ UNCHANGED <<clock, dlgVars>>

\* the ids of the items rendered, and one that no item has
ItemIds == {items[i].id : i \in DOMAIN items} \cup {"none"}

\* the ids of one batch of suggestions, in the order of the batch
AiIdAt == <<"ai-1", "ai-2", "ai-2">>

\* what getPackingItems resolves with here: the lists of the remote store
LoadedLists == RemoteLists("getPackingItems")

\* loadPackingList completes (its awaits are those of SpecPages): the trip
\* was found and setTrip(foundTrip), setItems(formattedItems) have run, or
\* setTrip(null), setItems([])
PackingListLoaded(found, packingItems) ==
    /\ IF found
         THEN /\ form' = [trip |-> "Tokyo, Japan"]
              /\ items' = FormatItems(packingItems)
         ELSE /\ form' = [trip |-> "null"]
              /\ items' = << >>
    /\ UNCHANGED <<clock, dialog, open, errors, dlgLoading, run>>

\* PackingList as it is constructed
PackingInit ==
    /\ dialog = "AISuggestions"
    /\ open = FALSE
    /\ form = [trip |-> "null"]
    /\ errors = {}
    /\ dlgLoading = FALSE
    /\ run = NoRun
    /\ items = << >>
    /\ clock = Epoch

----------------------------------------------------------------------------
(* App: src/src/App.tsx *)

\* the states blink.auth.onAuthStateChanged may deliver
AuthStates == [user : UserIds \cup {"null"}, isLoading : BOOLEAN]

\* Render without the test of loading
Render_NoLoading(u, l) == IF u = "null" THEN "SignIn" ELSE "Routes"

\* what App returns: if (loading) <LoadingScreen />; if (!user) the sign-in
\* prompt; else the Router with its routes
Render(u, l) ==
    IF l THEN "LoadingScreen"
    ELSE IF u = "null" THEN "SignIn"
    ELSE "Routes"

\* the routed page leaves the tree: its state is discarded, and what its
\* pending loads still set is set on no component
Unmount ==
    /\ route' = [route EXCEPT !.mounted = "no"]
    /\ loads' = [l \in Loads |-> IdleLoad]
    /\ pageTrip' = NullTrip
    /\ pageList' = << >>
    /\ pageUser' = NoProfile
    /\ pageLoading' = TRUE

\* the callback of onAuthStateChanged: setUser(state.user);
\* setLoading(state.isLoading), then App renders once with both. The
\* subscription ends when App is unmounted (return unsubscribe).
AuthStateChanged(state) ==
    /\ screen # "none"
    /\ user' = state.user
    /\ loading' = state.isLoading
    /\ latest' = <<state>>
    /\ screen' = Render(user', loading')
    /\ appUser' = IF state.user = "null" THEN appUser ELSE state.user
    /\ IF screen' = "Routes" /\ route.mounted # "no"
         THEN UNCHANGED <<route, loads, pageTrip, pageList, pageUser, pageLoading>>
         ELSE Unmount

\* the Router renders the page of the route. A page that throws while it
\* renders takes the whole tree down: App has no error boundary below it.
MountRouted(lowered) ==
    /\ screen = "Routes"
    /\ Mount(lowered)
    /\ screen' = IF route'.mounted = "crashed" THEN "none" ELSE screen
    /\ UNCHANGED <<user, loading, latest>>

\* App as it is constructed: useState(null), useState(true), first render
AppInit ==
    /\ user = "null"
    /\ loading = TRUE
    /\ screen = Render(user, loading)
    /\ latest = << >>

----------------------------------------------------------------------------
(* The other components at rest *)

PackIdle == items = << >> /\ progress = -1

DashIdle == today = 0 /\ trip = [startDate |-> 0, endDate |-> 0] /\ status = "none"

GroupIdle ==
    /\ page = "TripDetails" /\ entries = << >> /\ groupedEntries = << >>
    /\ rendered = FALSE /\ shown = << >>

DlgIdle ==
    /\ dialog = "CreateTrip" /\ open = FALSE /\ form = DefaultValues("CreateTrip")
    /\ errors = {} /\ dlgLoading = FALSE /\ run = NoRun

PageIdle ==
    /\ route = [page |-> "Dashboard", id |-> "-", mounted |-> "no"]
    /\ appUser = "u1"
    /\ loads = [l \in Loads |-> IdleLoad]
    /\ pageTrip = NullTrip /\ pageList = << >> /\ pageUser = NoProfile
    /\ pageLoading = TRUE

ProbeIdle == authThrew = FALSE

ClockIdle == clock = 0

AppIdle == user = "null" /\ loading = TRUE /\ screen = "LoadingScreen" /\ latest = << >>

RestIdle == ProbeIdle /\ ClockIdle /\ AppIdle

Init == DbInit /\ PackIdle /\ DashIdle /\ GroupIdle /\ DlgIdle /\ PageIdle /\ RestIdle

Next ==
    \/ \E c \in Calls, op \in Ops, u \in UserIds :
          \E t \in TripArgs(op) :
              StartCall(c, op, t, u) /\ UNCHANGED <<restVars, packVars, dashVars, groupVars, dlgVars, loadVars>>
    \/ \E c \in Calls, ok \in BOOLEAN :
          AuthMeSettles(c, ok) /\ UNCHANGED <<restVars, packVars, dashVars, groupVars, dlgVars, loadVars>>
    \/ \E c \in Calls, ok \in BOOLEAN :
          ProbeSettles(c, ok) /\ UNCHANGED <<restVars, packVars, dashVars, groupVars, dlgVars, loadVars>>
    \/ \E c \in Calls, ok \in BOOLEAN :
          \E list \in RemoteLists(calls[c].op) :
              QuerySettles(c, ok, list) /\ UNCHANGED <<restVars, packVars, dashVars, groupVars, dlgVars, loadVars>>
    \/ \E c \in Calls :
          Return(c) /\ UNCHANGED <<restVars, packVars, dashVars, groupVars, dlgVars, loadVars>>

Spec == Init /\ [][Next]_vars

InitProgress == DbInit /\ ProgressInit /\ DashIdle /\ GroupIdle /\ DlgIdle /\ PageIdle /\ RestIdle

NextProgress == RenderProgress /\ UNCHANGED <<restVars, dbVars, dashVars, groupVars, dlgVars, loadVars>>

SpecProgress == InitProgress /\ [][NextProgress]_vars

InitStatus == DbInit /\ PackIdle /\ StatusInit /\ GroupIdle /\ DlgIdle /\ PageIdle /\ RestIdle

NextStatus == RenderStatus /\ UNCHANGED <<restVars, dbVars, packVars, groupVars, dlgVars, loadVars>>

SpecStatus == InitStatus /\ [][NextStatus]_vars

InitGroup == DbInit /\ PackIdle /\ DashIdle /\ GroupInit /\ DlgIdle /\ PageIdle /\ RestIdle

NextGroup ==
    \/ RenderTimeline /\ UNCHANGED <<restVars, dbVars, packVars, dashVars, dlgVars, loadVars>>
    \/ RenderAgenda /\ UNCHANGED <<restVars, dbVars, packVars, dashVars, dlgVars, loadVars>>
    \/ \E date \in {DateOrder[i] : i \in DOMAIN DateOrder} :
          RenderSelectedDate(date)
          /\ UNCHANGED <<restVars, dbVars, packVars, dashVars, dlgVars, loadVars>>

SpecGroup == InitGroup /\ [][NextGroup]_vars

InitDialog == DbInit /\ progress = -1 /\ DashIdle /\ GroupIdle /\ DialogInit /\ PageIdle /\ RestIdle

NextDialog ==
    \/ OpenDialog /\ UNCHANGED <<restVars, dbVars, progress, dashVars, groupVars, loadVars>>
    \/ CancelDialog /\ UNCHANGED <<restVars, dbVars, progress, dashVars, groupVars, loadVars>>
    \/ \E field \in Editable(dialog) : \E value \in FieldValues(field) :
          EditForm(field, value) /\ UNCHANGED <<restVars, dbVars, progress, dashVars, groupVars, loadVars>>
    \/ SubmitForm /\ UNCHANGED <<restVars, dbVars, progress, dashVars, groupVars, loadVars>>
    \/ \E ok \in BOOLEAN :
          SubmitAuthSettles(ok) /\ UNCHANGED <<restVars, dbVars, progress, dashVars, groupVars, loadVars>>
    \/ \E ok \in BOOLEAN :
          CreateSettles(ok) /\ UNCHANGED <<restVars, dbVars, progress, dashVars, groupVars, loadVars>>
    \/ HandleParse /\ UNCHANGED <<restVars, dbVars, progress, dashVars, groupVars, loadVars>>
    \/ \E ok \in BOOLEAN, object \in ParsedTrips :
          ParseSettles(ok, object) /\ UNCHANGED <<restVars, dbVars, progress, dashVars, groupVars, loadVars>>
    \/ HandleCreateTrip /\ UNCHANGED <<restVars, dbVars, progress, dashVars, groupVars, loadVars>>
    \/ \E ok \in BOOLEAN :
          ParsedAuthSettles(ok) /\ UNCHANGED <<restVars, dbVars, progress, dashVars, groupVars, loadVars>>
    \/ GenerateAISuggestions /\ UNCHANGED <<restVars, dbVars, progress, dashVars, groupVars, loadVars>>
    \/ \E ok \in BOOLEAN : \E batch \in (IF ok THEN Batches ELSE {<< >>}) :
          \E ids \in [1..Len(batch) -> AiIds] :
              SuggestionsSettle(ok, batch, ids)
          /\ UNCHANGED <<restVars, dbVars, progress, dashVars, groupVars, loadVars>>

SpecDialog == InitDialog /\ [][NextDialog]_vars

InitPages == DbInit /\ PackIdle /\ DashIdle /\ GroupIdle /\ DlgIdle /\ PageInit /\ RestIdle

NextPages ==
    \/ \E lowered \in BOOLEAN :
          Mount(lowered) /\ UNCHANGED <<restVars, dbVars, packVars, dashVars, groupVars, dlgVars>>
    \/ \E id \in TripIds :
          Navigate(id) /\ UNCHANGED <<restVars, dbVars, packVars, dashVars, groupVars, dlgVars>>
    \/ Reload /\ UNCHANGED <<restVars, dbVars, packVars, dashVars, groupVars, dlgVars>>
    \/ \E l \in Loads, ok \in BOOLEAN :
          LoadAuthSettles(l, ok)
          /\ UNCHANGED <<restVars, dbVars, packVars, dashVars, groupVars, dlgVars>>
    \/ \E l \in Loads : \E allTrips \in DbResults("getTrips", "-", appUser) :
          TripsSettle(l, allTrips)
          /\ UNCHANGED <<restVars, dbVars, packVars, dashVars, groupVars, dlgVars>>
    \/ \E l \in Loads :
          \E list \in DbResults(ListOp(route.page), loads[l].id, appUser) :
              ListSettles(l, list)
              /\ UNCHANGED <<restVars, dbVars, packVars, dashVars, groupVars, dlgVars>>

SpecPages == InitPages /\ [][NextPages]_vars

\* The data-access layer and the dialogs share no state: from the common
\* rest state either the one or the other is exercised.
DbAtRest == isDatabaseAvailable = "null" /\ calls = [c \in Calls |-> IdleCall] /\ probeCount = 0

DlgAtRest == DlgIdle /\ PackIdle

NextOnce ==
    \/ \E c \in Calls, op \in Ops :
          \E t \in TripArgs(op) :
              DlgAtRest /\ StartCall(c, op, t, appUser)
              /\ UNCHANGED <<restVars, packVars, dashVars, groupVars, dlgVars, loadVars>>
    \/ \E c \in Calls, ok \in BOOLEAN :
          AuthMeSettles(c, ok) /\ UNCHANGED <<restVars, packVars, dashVars, groupVars, dlgVars, loadVars>>
    \/ \E c \in Calls, ok \in BOOLEAN :
          ProbeSettles(c, ok) /\ UNCHANGED <<restVars, packVars, dashVars, groupVars, dlgVars, loadVars>>
    \/ \E c \in Calls, ok \in BOOLEAN :
          \E list \in RemoteLists(calls[c].op) :
              QuerySettles(c, ok, list)
              /\ UNCHANGED <<restVars, packVars, dashVars, groupVars, dlgVars, loadVars>>
    \/ \E c \in Calls :
          Return(c) /\ UNCHANGED <<restVars, packVars, dashVars, groupVars, dlgVars, loadVars>>
    \/ DbAtRest /\ OpenDialog /\ UNCHANGED <<restVars, dbVars, progress, dashVars, groupVars, loadVars>>
    \/ CancelDialog /\ UNCHANGED <<restVars, dbVars, progress, dashVars, groupVars, loadVars>>
    \/ \E field \in Editable(dialog) : \E value \in FieldValues(field) :
          EditForm(field, value) /\ UNCHANGED <<restVars, dbVars, progress, dashVars, groupVars, loadVars>>
    \/ SubmitForm /\ UNCHANGED <<restVars, dbVars, progress, dashVars, groupVars, loadVars>>
    \/ \E ok \in BOOLEAN :
          SubmitAuthSettles(ok) /\ UNCHANGED <<restVars, dbVars, progress, dashVars, groupVars, loadVars>>
    \/ \E ok \in BOOLEAN :
          CreateSettles(ok) /\ UNCHANGED <<restVars, dbVars, progress, dashVars, groupVars, loadVars>>
    \/ HandleParse /\ UNCHANGED <<restVars, dbVars, progress, dashVars, groupVars, loadVars>>
    \/ \E ok \in BOOLEAN, object \in ParsedTrips :
          ParseSettles(ok, object) /\ UNCHANGED <<restVars, dbVars, progress, dashVars, groupVars, loadVars>>
    \/ HandleCreateTrip /\ UNCHANGED <<restVars, dbVars, progress, dashVars, groupVars, loadVars>>
    \/ \E ok \in BOOLEAN :
          ParsedAuthSettles(ok) /\ UNCHANGED <<restVars, dbVars, progress, dashVars, groupVars, loadVars>>
    \/ GenerateAISuggestions /\ UNCHANGED <<restVars, dbVars, progress, dashVars, groupVars, loadVars>>
    \/ \E ok \in BOOLEAN : \E batch \in (IF ok THEN Batches ELSE {<< >>}) :
          \E ids \in [1..Len(batch) -> AiIds] :
              SuggestionsSettle(ok, batch, ids)
          /\ UNCHANGED <<restVars, dbVars, progress, dashVars, groupVars, loadVars>>

SpecOnce == InitDialog /\ [][NextOnce]_vars

\* PackingList: its item handlers and its loader, as the clock advances
InitPacking ==
    DbInit /\ progress = -1 /\ DashIdle /\ GroupIdle /\ PackingInit /\ PageIdle
    /\ ProbeIdle /\ AppIdle

NextPacking ==
    \/ Tick /\ UNCHANGED <<dbVars, progress, dashVars, groupVars, loadVars, authThrew, appVars>>
    \/ \E newItemName \in NewItemNames :
          Len(items) < MaxList /\ AddItem(newItemName)
          /\ UNCHANGED <<dbVars, progress, dashVars, groupVars, loadVars, authThrew, appVars>>
    \/ \E itemId \in ItemIds :
          TogglePacked(itemId)
          /\ UNCHANGED <<dbVars, progress, dashVars, groupVars, loadVars, authThrew, appVars>>
    \/ \E itemId \in ItemIds :
          RemoveItem(itemId)
          /\ UNCHANGED <<dbVars, progress, dashVars, groupVars, loadVars, authThrew, appVars>>
    \/ \E found \in BOOLEAN :
          \E packingItems \in (IF found THEN LoadedLists ELSE {<< >>}) :
              PackingListLoaded(found, packingItems)
              /\ UNCHANGED <<dbVars, progress, dashVars, groupVars, loadVars, authThrew, appVars>>

SpecPacking == InitPacking /\ [][NextPacking]_vars

\* PackingList: its suggestion dialog, with the item handlers and the loader
\* running while a request is in flight
NextSuggest ==
    \/ \E newItemName \in NewItemNames :
          Len(items) < MaxList /\ AddItem(newItemName)
          /\ UNCHANGED <<dbVars, progress, dashVars, groupVars, loadVars, authThrew, appVars>>
    \/ \E itemId \in ItemIds :
          TogglePacked(itemId)
          /\ UNCHANGED <<dbVars, progress, dashVars, groupVars, loadVars, authThrew, appVars>>
    \/ \E itemId \in ItemIds :
          RemoveItem(itemId)
          /\ UNCHANGED <<dbVars, progress, dashVars, groupVars, loadVars, authThrew, appVars>>
    \/ \E found \in BOOLEAN :
          \E packingItems \in (IF found THEN LoadedLists ELSE {<< >>}) :
              PackingListLoaded(found, packingItems)
              /\ UNCHANGED <<dbVars, progress, dashVars, groupVars, loadVars, authThrew, appVars>>
    \/ OpenDialog /\ UNCHANGED <<dbVars, progress, dashVars, groupVars, loadVars, restVars>>
    \/ CancelDialog /\ UNCHANGED <<dbVars, progress, dashVars, groupVars, loadVars, restVars>>
    \/ GenerateAISuggestions
          /\ UNCHANGED <<dbVars, progress, dashVars, groupVars, loadVars, restVars>>
    \/ \E ok \in BOOLEAN :
          \E batch \in (IF ok THEN {b \in Batches : Len(items) + Len(b) <= MaxList}
                         ELSE {<< >>}) :
              \E ids \in {f \in [1..Len(batch) -> AiIds] : f = [i \in DOMAIN f |-> AiIdAt[i]]} :
                  SuggestionsSettle(ok, batch, ids)
                  /\ UNCHANGED <<dbVars, progress, dashVars, groupVars, loadVars, restVars>>

SpecSuggest == InitPacking /\ [][NextSuggest]_vars

\* App with the page it routes to
InitApp ==
    DbInit /\ PackIdle /\ DashIdle /\ GroupIdle /\ DlgIdle /\ PageInit
    /\ ProbeIdle /\ ClockIdle /\ AppInit

NextApp ==
    \/ \E state \in AuthStates :
          AuthStateChanged(state)
          /\ UNCHANGED <<dbVars, packVars, dashVars, groupVars, dlgVars, authThrew, clock>>
    \/ \E lowered \in BOOLEAN :
          MountRouted(lowered)
          /\ UNCHANGED <<dbVars, packVars, dashVars, groupVars, dlgVars, authThrew, clock>>
    \/ \E id \in TripIds :
          Navigate(id)
          /\ UNCHANGED <<dbVars, packVars, dashVars, groupVars, dlgVars, authThrew, clock, appVars>>
    \/ Reload
          /\ UNCHANGED <<dbVars, packVars, dashVars, groupVars, dlgVars, authThrew, clock, appVars>>
    \/ \E l \in Loads, ok \in BOOLEAN :
          LoadAuthSettles(l, ok)
          /\ UNCHANGED <<dbVars, packVars, dashVars, groupVars, dlgVars, authThrew, clock, appVars>>
    \/ \E l \in Loads : \E allTrips \in DbResults("getTrips", "-", appUser) :
          TripsSettle(l, allTrips)
          /\ UNCHANGED <<dbVars, packVars, dashVars, groupVars, dlgVars, authThrew, clock, appVars>>
    \/ \E l \in Loads :
          \E list \in DbResults(ListOp(route.page), loads[l].id, appUser) :
              ListSettles(l, list)
              /\ UNCHANGED <<dbVars, packVars, dashVars, groupVars, dlgVars, authThrew, clock, appVars>>

SpecApp == InitApp /\ [][NextApp]_vars

\* The data-access layer with the history of its probe: whether auth.me()
\* has thrown inside checkDatabaseAvailability.
InitProbe == Init

NextProbe ==
    \/ \E c \in Calls, op \in Ops :
          \E t \in TripArgs(op) :
              StartCall(c, op, t, appUser)
              /\ UNCHANGED <<authThrew, clock, appVars, packVars, dashVars, groupVars,
                             dlgVars, loadVars>>
    \/ \E c \in Calls, ok \in BOOLEAN :
          AuthMeSettles(c, ok)
          /\ authThrew' = (authThrew \/ ~ok)
          /\ UNCHANGED <<clock, appVars, packVars, dashVars, groupVars, dlgVars, loadVars>>
    \/ \E c \in Calls, ok \in BOOLEAN :
          ProbeSettles(c, ok)
          /\ UNCHANGED <<authThrew, clock, appVars, packVars, dashVars, groupVars,
                         dlgVars, loadVars>>
    \/ \E c \in Calls, ok \in BOOLEAN :
          \E list \in RemoteLists(calls[c].op) :
              QuerySettles(c, ok, list)
              /\ UNCHANGED <<authThrew, clock, appVars, packVars, dashVars, groupVars,
                             dlgVars, loadVars>>
    \/ \E c \in Calls :
          Return(c)
          /\ UNCHANGED <<authThrew, clock, appVars, packVars, dashVars, groupVars,
                         dlgVars, loadVars>>

SpecProbe == InitProbe /\ [][NextProbe]_vars

----------------------------------------------------------------------------
(* Claims about the data-access fallback layer (Spec) *)

Done(c) == calls[c].pc = "done"

FallbackOf(c) == Fallback(calls[c].op, calls[c].tripId, calls[c].userId)

\* each fallback record with the owning user id overwritten by the caller's
Retagged(list, userId) == [i \in DOMAIN list |-> [list[i] EXCEPT !.userId = userId]]

\* C1: the list getTrips(u) returns is exactly the list the remote trips query
\* returned, or exactly the fixed fallback trips each with userId replaced by
\* u; it never holds both remote and fallback records.
C1_TripsRemoteOrFallback ==
    \A c \in Calls :
        (Done(c) /\ calls[c].op = "getTrips") =>
            \/ calls[c].outcome = "ok" /\ calls[c].result = calls[c].remote
            \/ /\ calls[c].outcome # "ok"
               /\ calls[c].result = Retagged(mockTrips, calls[c].userId)

C1_Witness ==
    \E c, d \in Calls :
        /\ Done(c) /\ calls[c].op = "getTrips" /\ calls[c].outcome = "ok"
        /\ calls[c].result = <<remoteTripB, remoteTripA>>
        /\ Done(d) /\ calls[d].op = "getTrips" /\ calls[d].userId = "u2"
        /\ calls[d].result = Retagged(mockTrips, "u2")

\* C2: whether auth.me() throws, the probe query throws or the real list query
\* throws, in any combination and after any earlier calls, a finished call
\* holds a list (remote, static or empty) and no exception reached the caller.
C2_NeverFailsTowardsCaller ==
    \A c \in Calls :
        Done(c) =>
            /\ ~calls[c].threw
            /\ calls[c].result \in RemoteLists(calls[c].op) \cup {FallbackOf(c)}

C2_Witness ==
    \E c, d \in Calls :
        /\ Done(c) /\ calls[c].outcome = "threw"
        /\ Done(d) /\ ~calls[d].isAvailable
        /\ isDatabaseAvailable = "false"
        /\ probeCount = 1

\* C3 (as claimed): the limit-1 probe query is executed at most once in the
\* lifetime of the process, also when calls overlap.
C3_ProbeAtMostOnce == probeCount <= 1

\* a step that issues a remote list query (the probe's or a real one)
IssuesListQuery ==
    \E c \in Calls :
        /\ calls'[c].pc \in {"probe", "query"}
        /\ calls'[c].pc # calls[c].pc

\* C4 (as claimed): once the flag is false it stays false and no list query
\* is issued any more, in every interleaving of overlapping calls.
C4_UnavailableIsSticky ==
    [][isDatabaseAvailable = "false" =>
          (isDatabaseAvailable' = "false" /\ ~IssuesListQuery)]_vars

C6_RemoteResultUnmodified ==
    \A c \in Calls :
        (Done(c) /\ calls[c].isAvailable /\ calls[c].outcome = "ok") =>
            calls[c].result = calls[c].remote

C6_Witness ==
    \E c \in Calls :
        /\ Done(c) /\ calls[c].outcome = "ok" /\ calls[c].userId = "u2"
        /\ calls[c].result # << >>
        /\ \A i \in DOMAIN calls[c].result : calls[c].result[i].userId = "u1"

\* C7 (as claimed): when the store is unavailable, getTripEntries and
\* getPackingItems return exactly the fallback records of that tripId, each
\* with userId equal to the caller's userId.
C7_FallbackEntriesRetagged ==
    \A c \in Calls :
        (Done(c) /\ ~calls[c].isAvailable) =>
            /\ calls[c].op = "getTripEntries" =>
                 calls[c].result =
                     Retagged(SelectSeq(mockTripEntries,
                                  LAMBDA e : e.tripId = calls[c].tripId), calls[c].userId)
            /\ calls[c].op = "getPackingItems" =>
                 calls[c].result =
                     Retagged(SelectSeq(mockPackingItems,
                                  LAMBDA e : e.tripId = calls[c].tripId), calls[c].userId)

----------------------------------------------------------------------------
(* Claims about the derived-view computations *)

\* round(n / d) for naturals n, d > 0, halves rounded up
RoundHalfUp(n, d) == (2 * n + d) \div (2 * d)

\* C8 (as claimed): getPackingProgress is 0 for the empty list and otherwise
\* round(100 * packed / total); it is an integer in 0..100 (SpecProgress).
C8_ProgressIsRoundedPercentage ==
    progress # -1 =>
        /\ progress \in 0..100
        /\ progress = IF Len(items) = 0 THEN 0
                      ELSE RoundHalfUp(100 * PackedCount(items), Len(items))

\* the calendar day (UTC) the instant now falls on
CalendarDay(now) == now \div TicksPerDay

\* C9 (as claimed): getTripStatus is "upcoming" when today precedes the start
\* date, "active" on every day from the start day to the end day inclusive,
\* at any time of that day, and "completed" otherwise (SpecStatus).
C9_StatusByCalendarDay ==
    status # "none" =>
        status = IF CalendarDay(today) < trip.startDate THEN "upcoming"
                 ELSE IF CalendarDay(today) <= trip.endDate THEN "active"
                 ELSE "completed"

\* C10: the groups partition the reducer's input: the keys are distinct, each
\* group is non-empty and holds exactly the input entries whose date string is
\* its key, in input order; every input entry is in one group, once, and
\* nothing else is (SpecGroup).
C10_GroupsPartitionEntries ==
    rendered =>
        /\ \A i, j \in DOMAIN groupedEntries :
              i # j => groupedEntries[i][1] # groupedEntries[j][1]
        /\ \A i \in DOMAIN groupedEntries :
              /\ groupedEntries[i][2] # << >>
              /\ groupedEntries[i][2] =
                    SelectSeq(entries, LAMBDA e : e.date = groupedEntries[i][1])
        /\ \A k \in DOMAIN entries :
              \E i \in DOMAIN groupedEntries : groupedEntries[i][1] = entries[k].date
        /\ Cardinality({ij \in (DOMAIN groupedEntries) \X (1..Len(entries)) :
                           ij[2] \in DOMAIN groupedEntries[ij[1]][2]}) = Len(entries)

C10_Witness ==
    /\ rendered /\ page = "TripDetails"
    /\ Len(entries) = 3
    /\ entries[1].date = entries[3].date /\ entries[1].date # entries[2].date
    /\ entries[1].id # entries[3].id
    /\ Len(groupedEntries) = 2
    /\ groupedEntries[1][2] = <<entries[1], entries[3]>>

----------------------------------------------------------------------------
(* Claims about the dialog handlers (SpecDialog) *)

\* the trip form is complete and its end date lies before its start date
EndBeforeStart ==
    /\ dialog = "CreateTrip"
    /\ form.title # "" /\ form.destination # ""
    /\ form.startDate # NoDate /\ form.endDate # NoDate
    /\ form.endDate < form.startDate

\* the trip form is complete and its end date is its start date
EndOnStart ==
    /\ dialog = "CreateTrip"
    /\ form.title # "" /\ form.destination # ""
    /\ form.startDate # NoDate /\ form.endDate = form.startDate

\* C11: submitting a trip form whose end date is earlier than its start date
\* is rejected by validation before onSubmit runs: the end date is reported,
\* no remote operation is attempted, no notification is shown and the dialog
\* stays open with its values; with the end date equal to the start date
\* onSubmit runs.
C11_EndBeforeStartRejected ==
    [][SubmitForm =>
          /\ EndBeforeStart =>
                /\ "endDate" \in errors'
                /\ UNCHANGED <<run, dlgLoading, open, form>>
          /\ EndOnStart =>
                /\ errors' = {}
                /\ run' = Begin("onSubmit", "authMe", "auth.me")]_vars

C11_Witness ==
    /\ EndBeforeStart
    /\ errors = {"endDate"}
    /\ open /\ ~dlgLoading
    /\ run = NoRun

\* C12: in trip and entry creation, when the remote create throws after
\* auth.me() succeeded, the handler shows one more notification that is not
\* an error, resets the form, closes the dialog and invokes the created
\* callback, exactly as after a successful create but for the title of the
\* notification; no error notification is shown.
C12_WriteFailureReportedAsSuccess ==
    [][CreateSettles(FALSE) =>
          /\ run'.toasts = Append(run.toasts, Toast(LocalTitle(dialog), "default"))
          /\ \A i \in DOMAIN run'.toasts : run'.toasts[i].variant # "destructive"
          /\ form' = DefaultValues(dialog)
          /\ open' = FALSE
          /\ run'.callbacks = run.callbacks + 1
          /\ dlgLoading' = FALSE
          /\ [run' EXCEPT !.toasts = << >>]
               = [run EXCEPT !.pc = "idle", !.toasts = << >>, !.callbacks = @ + 1]
          /\ errors' = {}]_vars

C12_Witness ==
    /\ run.handler = "onSubmit"
    /\ run.ops = <<"auth.me", CreateOp(dialog)>>
    /\ run.toasts = <<Toast(LocalTitle(dialog), "default")>>
    /\ run.callbacks = 1
    /\ ~open /\ ~dlgLoading
    /\ form = DefaultValues(dialog)

----------------------------------------------------------------------------
(* Claims about the page loaders (SpecPages) *)

\* the page shows its empty / not-found state
EmptyState ==
    CASE route.page = "Dashboard" -> pageList = << >>
      [] route.page \in DetailPages -> pageTrip = NullTrip /\ pageList = << >>
      [] route.page = "Profile" -> pageUser = NoProfile
      [] OTHER -> TRUE

NoLoadInFlight == \A l \in Loads : ~InFlight(l)

\* C13: when a step of loadTrips, loadTripDetails, loadPackingList or
\* loadProfile fails, that invocation ends there (nothing is re-thrown, no
\* later step follows) with the page in its empty / not-found state (trips
\* = [], trip = null with entries / items = [], profile absent) and loading
\* = false.
C13_FailedLoadEndsEmpty ==
    [][\A l \in Loads :
          LoadAuthSettles(l, FALSE) =>
              /\ EmptyState'
              /\ pageLoading' = FALSE
              /\ loads'[l] = IdleLoad]_vars

C13_Witness ==
    /\ route = [page |-> "Profile", id |-> "-", mounted |-> "yes"]
    /\ NoLoadInFlight
    /\ pageUser = NoProfile
    /\ pageLoading = FALSE

----------------------------------------------------------------------------
(* More claims about the dialog handlers (SpecDialog) *)

\* C15: TextParserDialog.handleCreateTrip attempts no remote operation but
\* auth.me(); when auth.me() succeeds it shows a success notification,
\* clears the text and the parsed result, closes the dialog and invokes
\* onTripCreated; invoked with no parsed trip it changes nothing.
C15_ParsedTripIsNotPersisted ==
    [][/\ run'.handler = "handleCreateTrip" =>
             \A i \in DOMAIN run'.ops : run'.ops[i] = "auth.me"
       /\ ParsedAuthSettles(TRUE) =>
             /\ run'.toasts =
                   Append(run.toasts, Toast("Trip created successfully!", "default"))
             /\ form' = [text |-> "", parsedTrip |-> "null"]
             /\ open' = FALSE
             /\ run'.callbacks = run.callbacks + 1
             /\ run'.ops = run.ops
             /\ run'.pc = "idle"
       /\ HandleCreateTrip /\ form.parsedTrip = "null" => UNCHANGED vars]_vars

C15_Witness ==
    /\ dialog = "TextParser"
    /\ run.handler = "handleCreateTrip"
    /\ run.ops = <<"auth.me">>
    /\ run.toasts = <<Toast("Trip created successfully!", "default")>>
    /\ run.callbacks = 1
    /\ ~open /\ ~dlgLoading
    /\ form = [text |-> "", parsedTrip |-> "null"]

----------------------------------------------------------------------------
(* A claim about the data-access layer and the dialogs (SpecOnce) *)

NoDuplicates(seq) == \A i, j \in DOMAIN seq : seq[i] = seq[j] => i = j

\* C16: no remote operation is retried: a data-access call issues its list
\* query at most once (from its start or from its probe) and returns once
\* the query has settled; an invocation of a dialog handler attempts each
\* remote operation at most once (one create per submit, one generateObject
\* per parse or suggestion request) and ends when its create or
\* generateObject has settled, failed or not.
C16_NoOperationIsRetried ==
    [][/\ \A c \in Calls :
             /\ calls[c].pc = "query" => calls'[c].pc \in {"query", "done"}
             /\ calls[c].pc = "done" => calls'[c].pc \in {"done", "idle"}
             /\ calls'[c].pc = "query" => calls[c].pc \in {"query", "idle", "probe"}
       /\ NoDuplicates(run'.ops)
       /\ run.pc \in {"create", "generate"} /\ run' # run =>
             run' = [run EXCEPT !.pc = "idle", !.toasts = run'.toasts,
                                !.callbacks = run'.callbacks]]_vars

\* a call whose list query threw has returned the fallback
C16_Witness ==
    \E c \in Calls :
        /\ calls[c].pc = "done"
        /\ calls[c].outcome = "threw"
        /\ calls[c].result = FallbackOf(c)

----------------------------------------------------------------------------
(* Claims about the dialog handlers, continued (SpecDialog) *)

\* C20: in CreateTripDialog.onSubmit and CreateEntryDialog.onSubmit, when
\* auth.me() throws, the invocation ends without attempting a create: one
\* destructive notification is shown and no other, the form keeps its
\* values, the dialog stays as it is, the created callback is not invoked
\* and no exception leaves the handler.
C20_AuthFailureStopsSubmit ==
    [][SubmitAuthSettles(FALSE) =>
          /\ run'.ops = <<"auth.me">>
          /\ run'.toasts = <<ErrorToast>>
          /\ run'.callbacks = 0
          /\ run'.pc = "idle"
          /\ ~run'.threw
          /\ dlgLoading' = FALSE
          /\ UNCHANGED <<form, open, errors>>]_vars

C20_Witness ==
    /\ dialog \in {"CreateTrip", "CreateEntry"}
    /\ run = [NoRun EXCEPT !.handler = "onSubmit", !.ops = <<"auth.me">>,
                           !.toasts = <<ErrorToast>>]
    /\ open /\ ~dlgLoading
    /\ Schema(dialog, form) = {}

----------------------------------------------------------------------------
(* Claims about the page loaders, continued (SpecPages) *)

\* the remote operations a loader issues, in their order
Protocol(p) ==
    CASE p = "Dashboard" -> <<"auth.me", "getTrips">>
      [] p \in DetailPages -> <<"auth.me", "getTrips", ListOp(p)>>
      [] p = "Profile" -> <<"auth.me">>
      [] p = "CalendarView" -> << >>

IsPrefix(s, t) == Len(s) <= Len(t) /\ s = SubSeq(t, 1, Len(s))

\* this step puts records on the page
ObtainsRecords ==
    \/ pageList' # pageList /\ pageList' # << >>
    \/ pageTrip' # pageTrip /\ pageTrip' # NullTrip
    \/ pageUser' # pageUser

\* the invocation has fetched the user and then called the fallback layer
ThroughFallback(l) ==
    /\ InFlight(l)
    /\ Len(loads[l].ops) >= 2
    /\ loads[l].ops[1] = "auth.me"
    /\ loads[l].ops[2] = "getTrips"

C19_DetailResolution ==
    [][\A l \in Loads :
          route.page \in DetailPages =>
              /\ \A allTrips \in DbResults("getTrips", "-", appUser) :
                    TripsSettle(l, allTrips) =>
                        IF Found(allTrips, loads[l].id)
                          THEN /\ pageTrip' = Find(allTrips, loads[l].id)
                               /\ pageTrip'.id = loads[l].id
                               /\ \A i \in Matches(allTrips, loads[l].id) :
                                     allTrips[i] # pageTrip' =>
                                         \E j \in 1..(i - 1) : allTrips[j] = pageTrip'
                               /\ loads'[l] = [loads[l] EXCEPT
                                                 !.pc = "getList",
                                                 !.ops = Append(@, ListOp(route.page))]
                          ELSE /\ pageTrip' = NullTrip
                               /\ pageList' = << >>
                               /\ pageLoading' = FALSE
                               /\ loads'[l] = IdleLoad
              /\ loads'[l].pc = "getList" /\ loads[l].pc # "getList" =>
                    /\ loads[l].pc = "getTrips"
                    /\ pageTrip'.id = loads'[l].id]_vars

\* the first of two stored trips with the route's id is shown while the
\* list is being fetched for that id
C19_Witness ==
    /\ route.page \in DetailPages
    /\ \E l \in Loads :
          /\ loads[l] = [pc |-> "getList", id |-> route.id,
                         ops |-> <<"auth.me", "getTrips", ListOp(route.page)>>]
          /\ pageTrip = remoteTripA
          /\ pageTrip.id = loads[l].id
    /\ pageLoading = TRUE

----------------------------------------------------------------------------
(* A claim about the lists rendered per date (SpecGroup) *)

\* the bag of the elements of a sequence
BagOf(seq) == [x \in {seq[i] : i \in DOMAIN seq} |->
                 Cardinality({i \in DOMAIN seq : seq[i] = x})]

\* C18: every list rendered for a date (TripDetails timeline, CalendarView
\* selected date) is a permutation of the entries of that date, in
\* non-decreasing order of startTime, the empty startTime first.
C18_GroupSortedByStartTime ==
    \A k \in DOMAIN shown :
        LET date == shown[k][1]
            list == shown[k][2]
        IN  /\ BagOf(list) = BagOf(SelectSeq(entries, LAMBDA entry : entry.date = date))
            /\ \A i, j \in DOMAIN list :
                  i < j => Rank(TimeOrder, list[i].startTime)
                             <= Rank(TimeOrder, list[j].startTime)

\* a rendered list that differs from the order the entries were held in,
\* with the entry without a start time first
C18_Witness ==
    \E k \in DOMAIN shown :
        /\ shown[k][2] # SelectSeq(entries, LAMBDA entry : entry.date = shown[k][1])
        /\ Len(shown[k][2]) = 3
        /\ shown[k][2][1].startTime = ""

----------------------------------------------------------------------------
(* Claims about the AI handlers (SpecDialog) *)

\* C21: when ai.generateObject throws, generateAISuggestions leaves the item
\* list as it was and handleParse leaves parsedTrip null; the handler shows
\* one error notification, ends with its in-progress flag false and throws
\* nothing; handleParse with a blank text shows an error notification and
\* issues no AI call.
C21_AiFailureOnlyNotifies ==
    [][/\ SuggestionsSettle(FALSE, << >>, << >>) =>
             /\ items' = items
             /\ run'.toasts = Append(run.toasts, ErrorToast)
             /\ run'.pc = "idle" /\ ~run'.threw /\ ~dlgLoading'
       /\ (\A object \in ParsedTrips : ParseSettles(FALSE, object) =>
             /\ form' = form /\ form'.parsedTrip = "null"
             /\ run'.toasts = Append(run.toasts, ErrorToast)
             /\ run'.pc = "idle" /\ ~run'.threw /\ ~dlgLoading')
       /\ (HandleParse /\ Trim(form.text) = "") =>
             /\ run'.toasts = <<ErrorToast>> /\ run'.ops = << >>
             /\ run'.pc = "idle" /\ ~run'.threw
             /\ form' = form /\ ~dlgLoading']_vars

C21_Witness ==
    /\ run.handler = "generateAISuggestions" /\ run.pc = "idle"
    /\ run.ops = <<"ai.generateObject">>
    /\ run.toasts = <<ErrorToast>>
    /\ Len(items) = 2 /\ items = run.items
    /\ ~dlgLoading

----------------------------------------------------------------------------
(* Claims about the loading flag and the process-wide flag *)

\* C22 (as claimed): on Dashboard, TripDetails and PackingList, whenever an
\* invocation of the loader is still in flight (its availability probe
\* included) the page's loading flag is true, also when two invocations
\* overlap (SpecPages).
C22_LoadingWhileLoadPending ==
    (route.page \in {"Dashboard", "TripDetails", "PackingList"}) =>
        ((\E l \in Loads : InFlight(l)) => pageLoading)

\* C23 (as claimed): when auth.me() throws inside the availability probe the
\* flag is memoized false although that probe issued no query, and every call
\* started afterwards returns its fallback data at once, without a probe and
\* without a list query, whatever auth.me() does later (SpecProbe).
C23_AuthFailureIsPermanent ==
    [][/\ \A c \in Calls :
             (calls[c].pc = "authMe" /\ calls'[c].pc = "done") =>
                 (isDatabaseAvailable' = "false" /\ probeCount' = probeCount)
       /\ authThrew =>
             \A c \in Calls :
                 (calls[c].pc = "idle" /\ calls'[c].pc # "idle") =>
                     /\ calls'[c].pc = "done"
                     /\ ~calls'[c].isAvailable
                     /\ calls'[c].result =
                            Fallback(calls'[c].op, calls'[c].tripId, calls'[c].userId)]_vars

----------------------------------------------------------------------------
(* Claims about the items of PackingList (SpecPacking, SpecSuggest) *)

\* C24 (as claimed): after any sequence of addItem, removeItem, togglePacked
\* and loadPackingList the items of the list have pairwise distinct ids, so
\* that togglePacked(id) and removeItem(id) affect one item (SpecPacking).
C24_ItemIdsDistinct ==
    \A i, j \in DOMAIN items : i # j => items[i].id # items[j].id

\* C25: togglePacked(id) negates isPacked of the items whose id is id and
\* leaves every other item, every other field, the length and the order as
\* they were; a second togglePacked(id) restores the list; an id no item has
\* changes nothing; no remote call is issued (SpecPacking).
C25_TogglePackedFrame ==
    [][\A itemId \in ItemIds :
          TogglePacked(itemId) =>
              /\ Len(items') = Len(items)
              /\ \A i \in DOMAIN items :
                    /\ DOMAIN items'[i] = DOMAIN items[i]
                    /\ \A f \in DOMAIN items[i] \ {"isPacked"} : items'[i][f] = items[i][f]
                    /\ items'[i].isPacked =
                          IF items[i].id = itemId THEN ~items[i].isPacked
                          ELSE items[i].isPacked
              /\ Toggled(items', itemId) = items
              /\ (\A i \in DOMAIN items : items[i].id # itemId) => items' = items
              /\ calls' = calls /\ loads' = loads /\ run' = run]_vars

C25_Witness ==
    /\ Len(items) = 2
    /\ items[1].id = items[2].id
    /\ items[1].isPacked /\ items[2].isPacked
    /\ clock > Epoch

\* a step in which generateAISuggestions appends its suggestions
SuggestionsAdded ==
    /\ run.handler = "generateAISuggestions" /\ run.pc = "generate"
    /\ run'.pc = "idle"
    /\ run'.toasts = Append(run.toasts, Toast("AI suggestions added!", "default"))

NoTwoNamesEqual(list) ==
    \A i, j \in DOMAIN list :
        i # j => ToLowerCase(list[i].itemName) # ToLowerCase(list[j].itemName)

\* C26 (as claimed): when generateAISuggestions succeeds on a list in which no
\* two item names are equal ignoring case, no two names of the resulting list
\* are equal ignoring case, whatever batch the AI returned and whatever was
\* added by hand while the request was in flight (SpecSuggest).
C26_SuggestionsKeepNamesDistinct ==
    [][(SuggestionsAdded /\ NoTwoNamesEqual(run.items) /\ NoTwoNamesEqual(items))
          => NoTwoNamesEqual(items')]_vars

\* C27: the edits made by addItem, removeItem and togglePacked while a
\* suggestion request is in flight are kept: when the suggestions arrive the
\* list is the list as edited, in its order, followed by the new suggestions
\* (SpecSuggest).
C27_LocalEditsSurviveSuggestions ==
    [][SuggestionsAdded =>
          /\ Len(items') >= Len(items)
          /\ SubSeq(items', 1, Len(items)) = items
          /\ \A i \in (Len(items) + 1)..Len(items') :
                /\ items'[i].id \in AiIds
                /\ ~items'[i].isPacked
                /\ ToLowerCase(items'[i].itemName) \notin
                       {ToLowerCase(run.items[k].itemName) : k \in DOMAIN run.items}]_vars

\* the list was empty when the request started; an item was added and packed
\* before the suggestion arrived
C27_Witness ==
    /\ run.handler = "generateAISuggestions" /\ run.pc = "idle"
    /\ run.toasts = <<Toast("AI suggestions added!", "default")>>
    /\ run.items = << >>
    /\ Len(items) = 2
    /\ items[1].id = ToString(Epoch) /\ items[1].isPacked
    /\ items[2].id \in AiIds

----------------------------------------------------------------------------
(* A claim about App (SpecApp) *)

\* C28: whatever auth states the callback delivered, the routes and the page
\* they mount are rendered only while the latest state delivered has
\* isLoading false and a user; while it has isLoading true App shows the
\* loading screen, and with isLoading false and no user the sign-in prompt;
\* before any callback App shows the loading screen.
C28_RoutesOnlyWhenSignedIn ==
    /\ Len(latest) = 0 => screen = "LoadingScreen"
    /\ Len(latest) = 1 =>
          /\ latest[1].isLoading => screen = "LoadingScreen"
          /\ (~latest[1].isLoading /\ latest[1].user = "null") => screen = "SignIn"
    /\ (screen = "Routes" \/ route.mounted # "no" \/ \E l \in Loads : InFlight(l)) =>
          /\ Len(latest) = 1
          /\ ~latest[1].isLoading
          /\ latest[1].user # "null"

C28_Witness ==
    /\ screen = "Routes"
    /\ route.mounted = "yes" /\ route.page = "PackingList"
    /\ latest = <<[user |-> "u2", isLoading |-> FALSE]>>
    /\ appUser = "u2"
    /\ pageList # << >>
    /\ \E l \in Loads : InFlight(l)

----------------------------------------------------------------------------
(* A claim about the progress shown (SpecProgress) *)

AllPacked == Len(items) > 0 /\ PackedCount(items) = Len(items)

NonePacked == Len(items) = 0 \/ PackedCount(items) = 0

\* C29 (as claimed): the progress shown is 100 if and only if the list is
\* non-empty and every item is packed, and 0 if and only if the list is empty
\* or no item is packed, for every list size.
C29_ProgressExtremes ==
    progress # -1 =>
        /\ progress = 100 <=> AllPacked
        /\ progress = 0 <=> NonePacked

\* C29 (amended): the progress shown is 100 when the list is non-empty and
\* every item is packed, and 0 when the list is empty or no item is packed,
\* for every list size; for lists of fewer than 200 items it is 100 only
\* then, and 0 only then.
C29_ProgressExtremesBelow200 ==
    progress # -1 =>
        /\ AllPacked => progress = 100
        /\ NonePacked => progress = 0
        /\ Len(items) < 200 =>
              /\ progress = 100 => AllPacked
              /\ progress = 0 => NonePacked

C29_Witness ==
    /\ Len(items) = 199
    /\ PackedCount(items) = 198
    /\ progress = 99

====
